---- MODULE Spec2Model ----
(***************************************************************************)
(* Worker pool runtime of sanyfan/work: the shared store (pending lists,   *)
(* in-progress lists, lock counters, retry / scheduled / dead sets, unique *)
(* markers), the fetch script, the worker loop (worker.go) and the pool    *)
(* operations Start / Stop / Drain (worker_pool.go).                       *)
(***************************************************************************)
EXTENDS Integers, Sequences, FiniteSets, TLC

\* ------------------------------------------------------------------ bounds
MaxJobs == 2          \* job ids handed out by the producers: 1..MaxJobs
MaxNow == 2           \* the clock runs over 0..MaxNow (epoch seconds)
CustomBackoff == 7    \* what the custom backoff function of name b returns
MaxIdle == 6          \* consecutive empty fetches counted for a worker
MaxNegative == 1      \* how far below zero a lock is followed

\* ------------------------------------------------------------- the fleet
Names == {"a", "b"}
Pools == {"P1", "P2", "P3"}
Workers == {"w1", "w2", "w3", "w4"}
Args == {7}

\* a job name no pool registers, and the names a lock key may be made for
StrayNames == {"ghost"}
LockNames == Names \cup StrayNames
NoPayload == [id |-> 0, name |-> "", args |-> 0, unique |-> FALSE,
              fails |-> 0, err |-> "", scheduled_at |-> 0]
\* a nil *Job
\* a nil slice: no backing array
NoSlice == [shared |-> FALSE, len |-> 0, own |-> <<>>]

NoJob == [rawJSON |-> NoPayload, inProgQueue |-> <<"", "">>,
          marshalable |-> TRUE]

\* worker.poolID: every worker belongs to one pool (newWorker)
\* (P1 and P2 have concurrency 1, P3 has concurrency 2)
poolID(w) == IF w = "w1" THEN "P1" ELSE IF w = "w2" THEN "P2" ELSE "P3"

\* wp.workers
workers(p) == {w \in Workers : poolID(w) = p}

\* JobOptions as registered (applyDefaultsAndValidate leaves them as given):
\* the two registrations the pools are checked with. Both pools register the
\* same names with the same options; Backoff is a constant custom backoff.
opts(maxFails, skipDead, maxConcurrency, startingDeadline) ==
  [MaxFails |-> maxFails, SkipDead |-> skipDead,
   MaxConcurrency |-> maxConcurrency, StartingDeadline |-> startingDeadline,
   Backoff |-> [nil |-> FALSE, secs |-> 1], middleware |-> <<>>,
   handler |-> "user"]

Registrations ==
  { [n \in Names |-> IF n = "a" THEN opts(2, FALSE, 1, 0)
                                ELSE opts(1, TRUE, 0, 2)],
    [n \in Names |-> IF n = "a" THEN opts(1, FALSE, 1, 0)
                                ELSE opts(2, TRUE, 0, 2)] }

VARIABLES
  jobTypes,         \* wp.jobTypes / w.jobTypes: name -> options
  jobs,             \* jobs:<name>                       list of payloads
  inprogress,       \* jobs:<name>:<poolID>:inprogress   list of payloads
  lock,             \* jobs:<name>:lock
  lock_info,        \* jobs:<name>:lock_info  hash poolID -> count
  paused,           \* jobs:<name>:paused
  max_concurrency,  \* jobs:<name>:max_concurrency (0 while the key is absent)
  retry,            \* sorted set: {[job, score]}
  scheduled,        \* sorted set: {[job, score]}
  dead,             \* sorted set: {[job, score]}
  unique,           \* unique:<hash(name,args)> keys that are set
  nextID,           \* next job id a producer hands out
  now,              \* nowEpochSeconds()
  started,          \* wp.started
  pc,               \* position of each worker's loop goroutine
  job,              \* the *Job the worker holds (loop / processJob local)
  runErr,           \* processJob's runErr
  drained,          \* loop's drained flag
  abandoned,        \* handler tasks the workers no longer wait for, per name
  stopReq,          \* position of the goroutine calling w.stop()
  drainReq,         \* position of the goroutine calling w.drain()
  clearReq,         \* position of the caller of w.ClearWorker()
  poolCall,         \* the pool operation in progress: Stop or Drain
  lease,            \* periodic_enqueuer:lease: holder and expiry
  penq,             \* per pool: firings its periodic enqueuer has yet to insert
  worker_pools,     \* worker_pools: set of pool ids
  heartbeat,        \* worker_pools:<poolID>:heartbeat: heartbeat_at, -1 if absent
  crashed,          \* the pool's process died
  reap,             \* per pool: position of its dead-pool reaper
  middleware,       \* wp.middleware
  hook,             \* wp.hook
  wmiddleware,      \* w.middleware
  whook,            \* w.hook
  hookRuns,         \* runHook calls of the worker's current processJob
  consequtiveNoJobs,\* loop's consequtiveNoJobs
  timer,            \* the duration (ms) of the loop's last timer.Reset
  observed,         \* the workers whose consequtiveNoJobs and timer are kept
  mwArray,          \* the backing array of wp.middleware (w.middleware)
  mwLocal,          \* processJob's local slice middleware
  ranChain,         \* the chain runJob read for the worker's current job
  drainCall,        \* position of the worker's workerDrain handler in v.drain()
  running           \* per pool and background component: instances running

store == <<jobs, inprogress, lock, lock_info, paused, max_concurrency,
           retry, scheduled, dead, unique>>
chans == <<stopReq, drainReq, clearReq, poolCall>>
enq == <<lease, penq>>
reaping == <<worker_pools, heartbeat, crashed, reap>>
chains == <<middleware, hook, wmiddleware, whook>>
idle == <<consequtiveNoJobs, timer, observed>>
alias == <<mwArray, mwLocal, ranChain>>
vars == <<jobTypes, jobs, inprogress, lock, lock_info, paused, max_concurrency,
          retry, scheduled, dead, unique, nextID, now, started, pc, job,
          runErr, drained, abandoned, stopReq, drainReq, clearReq, poolCall,
          lease, penq, worker_pools, heartbeat, crashed, reap,
          middleware, hook, wmiddleware, whook, hookRuns, running,
          consequtiveNoJobs, timer, observed, mwArray, mwLocal, ranChain,
          drainCall>>

\* the background components Start creates and starts and Stop stops:
\* wp.heartbeater, wp.retrier, wp.scheduler, wp.deadPoolReaper,
\* wp.periodicEnqueuer
Components ==
  {"heartbeater", "retrier", "scheduler", "deadPoolReaper", "periodicEnqueuer"}

\* is an instance of component c of pool p running
isRunning(p, c) == running[p][c] > 0

\* ----------------------------------------------------- redis list helpers
\* LPUSH key x
LPush(q, x) == <<x>> \o q

\* LREM key 1 x: remove the first occurrence of x, if any
RECURSIVE LRem(_, _)
LRem(q, x) ==
  IF q = <<>> THEN <<>>
  ELSE IF Head(q) = x THEN Tail(q)
  ELSE <<Head(q)>> \o LRem(Tail(q), x)

\* the element RPOP / RPOPLPUSH takes: the right end
RPopped(q) == q[Len(q)]
RPopRest(q) == SubSeq(q, 1, Len(q) - 1)

\* the state after NewWorkerPool and the registrations regs, with the
\* loop-local counter and timer kept for the workers obs
InitWith(regs, obs) ==
  /\ jobTypes \in regs
  /\ jobs = [n \in Names |-> <<>>]
  /\ inprogress = [p \in Pools |-> [n \in Names |-> <<>>]]
  /\ lock = [n \in LockNames |-> 0]
  /\ lock_info = [n \in LockNames |-> [p \in Pools |-> 0]]
  /\ paused = [n \in Names |-> FALSE]
  /\ max_concurrency = [n \in Names |-> 0]
  /\ retry = {}
  /\ scheduled = {}
  /\ dead = {}
  /\ unique = {}
  /\ nextID = 1
  /\ now = 0
  /\ started = [p \in Pools |-> FALSE]
  /\ running = [p \in Pools |-> [c \in Components |-> 0]]
  /\ pc = [w \in Workers |-> "off"]
  /\ job = [w \in Workers |-> NoJob]
  /\ runErr = [w \in Workers |-> "nil"]
  /\ drained = [w \in Workers |-> FALSE]
  /\ abandoned = [n \in Names |-> 0]
  /\ stopReq = [w \in Workers |-> "none"]
  /\ drainReq = [w \in Workers |-> "none"]
  /\ clearReq = [w \in Workers |-> "none"]
  /\ poolCall = [p \in Pools |-> "none"]
  /\ lease = [holder |-> "", expires |-> 0]
  /\ penq = [p \in Pools |-> [todo |-> {}, last |-> -1]]
  /\ worker_pools = {}
  /\ heartbeat = [p \in Pools |-> -1]
  /\ crashed = [p \in Pools |-> FALSE]
  /\ reap = [p \in Pools |-> [pc |-> "idle", dead |-> "", names |-> {}]]
  /\ middleware = [p \in Pools |-> <<>>]
  /\ hook = [p \in Pools |-> <<>>]
  /\ wmiddleware = [w \in Workers |-> <<>>]
  /\ whook = [w \in Workers |-> <<>>]
  /\ hookRuns = [w \in Workers |-> 0]
  /\ consequtiveNoJobs = [w \in Workers |-> 0]
  /\ timer = [w \in Workers |-> 0]
  /\ observed = obs
  /\ mwArray = [p \in Pools |-> <<>>]
  /\ mwLocal = [w \in Workers |-> NoSlice]
  /\ ranChain = [w \in Workers |-> <<>>]
  /\ drainCall = [w \in Workers |-> "none"]

Init == InitWith(Registrations, {})

\* ------------------------------------------------------------- producers
\* newJob(rawJSON, ...): json.Unmarshal succeeds on the payload. Bytes that
\* are no job envelope are modelled as a payload without a name.
Decodable(j) == j.name # ""

\* the job envelope a producer writes
NewJob(n, a, u, at) ==
  [id |-> nextID, name |-> n, args |-> a, unique |-> u, fails |-> 0,
   err |-> "", scheduled_at |-> at]

\* Enqueue: LPUSH jobs:<name>
Enqueue(n, a) ==
  /\ nextID <= MaxJobs
  /\ jobs' = [jobs EXCEPT ![n] = LPush(@, NewJob(n, a, FALSE, 0))]
  /\ nextID' = nextID + 1
  /\ UNCHANGED <<jobTypes, running, drainCall, alias, idle, enq, reaping, chains, hookRuns, inprogress, lock, lock_info, paused, max_concurrency, retry,
                 scheduled, dead, unique, now, started, pc, job, runErr,
                 drained, abandoned, chans>>

\* EnqueueUnique: SET unique:<hash> NX, and LPUSH only when it was newly set
EnqueueUnique(n, a) ==
  /\ nextID <= MaxJobs
  /\ <<n, a>> \notin unique
  /\ unique' = unique \cup {<<n, a>>}
  /\ jobs' = [jobs EXCEPT ![n] = LPush(@, NewJob(n, a, TRUE, 0))]
  /\ nextID' = nextID + 1
  /\ UNCHANGED <<jobTypes, running, drainCall, alias, idle, enq, reaping, chains, hookRuns, inprogress, lock, lock_info, paused, max_concurrency, retry,
                 scheduled, dead, now, started, pc, job, runErr,
                 drained, abandoned, chans>>

\* EnqueueIn: ZADD scheduled <now + secs>
EnqueueIn(n, a, secs) ==
  /\ nextID <= MaxJobs
  /\ now + secs <= MaxNow
  /\ scheduled' = scheduled \cup
        {[job |-> NewJob(n, a, FALSE, now + secs), score |-> now + secs]}
  /\ nextID' = nextID + 1
  /\ UNCHANGED <<jobTypes, running, drainCall, alias, idle, enq, reaping, chains, hookRuns, jobs, inprogress, lock, lock_info, paused, max_concurrency,
                 retry, dead, unique, now, started, pc, job, runErr,
                 drained, abandoned, chans>>

\* a foreign writer pushes onto jobs:<q> an envelope whose name is not q and
\* is registered by no pool
EnqueueStray(q, n, a) ==
  /\ nextID <= MaxJobs
  /\ jobs' = [jobs EXCEPT ![q] = LPush(@, NewJob(n, a, FALSE, 0))]
  /\ nextID' = nextID + 1
  /\ UNCHANGED <<jobTypes, running, drainCall, alias, idle, enq, reaping, chains, hookRuns, inprogress, lock,
                 lock_info, paused, max_concurrency, retry, scheduled, dead,
                 unique, now, started, pc, job, runErr, drained, abandoned,
                 chans>>

\* a foreign writer pushes onto jobs:<q> bytes that are no job envelope
EnqueueGarbage(q) ==
  /\ nextID <= MaxJobs
  /\ jobs' = [jobs EXCEPT ![q] = LPush(@, [NoPayload EXCEPT !.id = nextID])]
  /\ nextID' = nextID + 1
  /\ UNCHANGED <<jobTypes, running, drainCall, alias, idle, enq, reaping, chains, hookRuns, inprogress, lock,
                 lock_info, paused, max_concurrency, retry, scheduled, dead,
                 unique, now, started, pc, job, runErr, drained, abandoned,
                 chans>>

\* the clock advances
Tick ==
  /\ now < MaxNow
  /\ now' = now + 1
  /\ UNCHANGED <<jobTypes, running, drainCall, alias, idle, enq, reaping, chains, hookRuns, store, nextID, started, pc, job, runErr, drained, abandoned,
                 chans>>

\* an operator sets or clears jobs:<name>:paused
SetPaused(n, v) ==
  /\ paused[n] # v
  /\ paused' = [paused EXCEPT ![n] = v]
  /\ UNCHANGED <<jobTypes, running, drainCall, alias, idle, enq, reaping, chains, hookRuns, jobs, inprogress, lock, lock_info, max_concurrency, retry,
                 scheduled, dead, unique, nextID, now, started, pc, job,
                 runErr, drained, abandoned, chans>>

\* ------------------------------------------------------------- requeuer
\* one due entry of the sorted set: ZREM it and LPUSH it on jobs:<name>, in
\* one batch. The known names of a pool are the names of wp.jobTypes.
RequeueEntry(e) ==
  /\ \E p \in Pools : isRunning(p, "retrier") /\ isRunning(p, "scheduler")
  /\ e.score <= now
  /\ e.job.name \in DOMAIN jobTypes
  /\ jobs' = [jobs EXCEPT ![e.job.name] = LPush(@, e.job)]

RequeueRetry ==
  /\ \E e \in retry : RequeueEntry(e) /\ retry' = retry \ {e}
  /\ UNCHANGED <<jobTypes, running, drainCall, alias, idle, enq, reaping, chains, hookRuns, inprogress, lock, lock_info, paused, max_concurrency,
                 scheduled, dead, unique, nextID, now, started, pc, job,
                 runErr, drained, abandoned, chans>>

RequeueScheduled ==
  /\ \E e \in scheduled : RequeueEntry(e) /\ scheduled' = scheduled \ {e}
  /\ UNCHANGED <<jobTypes, running, drainCall, alias, idle, enq, reaping, chains, hookRuns, inprogress, lock, lock_info, paused, max_concurrency,
                 retry, dead, unique, nextID, now, started, pc, job,
                 runErr, drained, abandoned, chans>>

\* (mutation) Start leaves the max_concurrency keys unwritten
writeNoConcurrencyControls ==
  [n \in Names |-> 0]

\* ---------------------------------------------------- WorkerPool.Start
\* writeConcurrencyControlsToRedis: SET jobs:<name>:max_concurrency
writeConcurrencyControlsToRedis ==
  [n \in Names |-> jobTypes[n].MaxConcurrency]

\* (mutation) Start without its test of wp.started
startAlways(p) == TRUE

\* if wp.started { return }
startGuard(p) == ~started[p]

\* Start: guarded by wp.started; writes the concurrency controls, starts
\* every worker's loop (fresh locals, timer armed with 0) and creates and
\* starts one instance of every background component.
Start(p) ==
  /\ startGuard(p)
  /\ poolCall[p] = "none"
  /\ started' = [started EXCEPT ![p] = TRUE]
  /\ running' = [running EXCEPT ![p] = [c \in Components |-> @[c] + 1]]
  /\ max_concurrency' = writeConcurrencyControlsToRedis
  /\ pc' = [w \in Workers |-> IF w \in workers(p) THEN "select" ELSE pc[w]]
  /\ drained' = [w \in Workers |-> IF w \in workers(p) THEN FALSE ELSE drained[w]]
  /\ UNCHANGED <<jobTypes, drainCall, alias, idle, enq, reaping, chains, hookRuns, jobs, inprogress, lock, lock_info, paused, retry, scheduled,
                 dead, unique, nextID, now, job, runErr, abandoned, chans>>

\* (mutation) every tuple consults the paused key of job type "a"
sampleKeysOnePausedKey(w, n) ==
  [redisJobs |-> n, redisJobsInProg |-> <<poolID(w), n>>,
   redisJobsPaused |-> "a",
   redisJobsLock |-> n, redisJobsLockInfo |-> n,
   redisJobsMaxConcurrency |-> n]

\* ------------------------------------------------------ priority sampler
\* the six keys one job type contributes to a fetch (sampler.add)
sampleKeys(w, n) ==
  [redisJobs |-> n, redisJobsInProg |-> <<poolID(w), n>>,
   redisJobsPaused |-> n,
   redisJobsLock |-> n, redisJobsLockInfo |-> n,
   redisJobsMaxConcurrency |-> n]

\* sampler.sample(): a weighted random permutation of the job types; every
\* order has positive probability.
Orders ==
  {o \in [1..Cardinality(Names) -> Names] :
     \A i, k \in 1..Cardinality(Names) : i # k => o[i] # o[k]}

\* ---------------------------------------------------------- fetch script
\* may tuple s be fetched: not paused, under its concurrency cap, non-empty
CanFetch(s) ==
  /\ ~paused[s.redisJobsPaused]
  /\ ~(max_concurrency[s.redisJobsMaxConcurrency] > 0
       /\ lock[s.redisJobsLock] >= max_concurrency[s.redisJobsMaxConcurrency])
  /\ jobs[s.redisJobs] # <<>>

\* the first tuple of the script's KEYS, from i on, that can be fetched; 0: none
RECURSIVE FirstFetchable(_, _)
FirstFetchable(samples, i) ==
  IF i > Len(samples) THEN 0
  ELSE IF CanFetch(samples[i]) THEN i
  ELSE FirstFetchable(samples, i + 1)

\* the script's effect for tuple s and ARGV[1] = pool: RPOPLPUSH, lock incr
redisLuaFetchJob(s, pool) ==
  /\ jobs' = [jobs EXCEPT ![s.redisJobs] = RPopRest(@)]
  /\ inprogress' =
       [inprogress EXCEPT ![s.redisJobsInProg[1]][s.redisJobsInProg[2]] =
          LPush(@, RPopped(jobs[s.redisJobs]))]
  /\ lock' = [lock EXCEPT ![s.redisJobsLock] = @ + 1]
  /\ lock_info' = [lock_info EXCEPT ![s.redisJobsLockInfo][pool] = @ + 1]

\* ------------------------------------------------------------ worker.loop
sleepBackoffsInMilliseconds == <<0, 10, 100, 1000, 5000>>

\* (mutation) the ladder is indexed before the counter is incremented
idleDelayBeforeIncrement(k) ==
  sleepBackoffsInMilliseconds[
    (IF k - 1 >= Len(sleepBackoffsInMilliseconds)
     THEN Len(sleepBackoffsInMilliseconds) - 1 ELSE k - 1) + 1]

\* idx := consequtiveNoJobs, clamped to the last index;
\* sleepBackoffsInMilliseconds[idx] (the Go slice is indexed from 0)
idleDelay(k) ==
  sleepBackoffsInMilliseconds[
    (IF k >= Len(sleepBackoffsInMilliseconds)
     THEN Len(sleepBackoffsInMilliseconds) - 1 ELSE k) + 1]

\* consequtiveNoJobs after the loop's branch res on a timer tick
noJobsAfter(w, res) ==
  IF w \notin observed THEN consequtiveNoJobs[w]
  ELSE CASE res = "nil" -> consequtiveNoJobs[w] + 1
         [] res = "job" -> 0
         [] OTHER -> consequtiveNoJobs[w]

\* the duration of the timer.Reset that ends the loop's branch res
timerAfter(w, res) ==
  IF w \notin observed THEN timer[w]
  ELSE CASE res = "nil" -> idleDelay(consequtiveNoJobs[w] + 1)
         [] res = "job" -> 0
         [] res = "err" -> 10
         [] res = "drain" -> 0
         [] OTHER -> timer[w]

\* the end of the loop's branch res: the counter, then timer.Reset
loopEnds(w, res) ==
  /\ consequtiveNoJobs' = [consequtiveNoJobs EXCEPT ![w] = noJobsAfter(w, res)]
  /\ timer' = [timer EXCEPT ![w] = timerAfter(w, res)]
  /\ UNCHANGED observed

\* case <-timer.C: the timer is always armed while the loop selects
TimerFire(w) ==
  /\ pc[w] = "select"
  /\ pc' = [pc EXCEPT ![w] = "fetch"]
  /\ UNCHANGED <<jobTypes, running, drainCall, alias, idle, enq, reaping, chains, hookRuns, store, nextID, now, started, job, runErr, drained,
                 abandoned, chans>>

\* where processJob goes first for a fetched payload
processEntry(j) ==
  IF j.name \notin DOMAIN jobTypes THEN "stray"
  ELSE IF /\ jobTypes[j.name].StartingDeadline > 0
          /\ j.scheduled_at > 0
          /\ j.scheduled_at < jobTypes[j.name].StartingDeadline
       THEN "drop"
       ELSE "run"

\* (mutation) the drained flag is looked at before the fetched job
loopBranchDrainedFirst(w, j) ==
  IF drained[w] THEN "sigdrain"
  ELSE IF j # NoPayload THEN processEntry(j)
  ELSE "select"

\* loop's branch on fetchJob's result (no error): a job is processed; on nil
\* a drained loop signals doneDrainingChan, else it resets the timer
loopBranch(w, j) ==
  IF j # NoPayload THEN processEntry(j)
  ELSE IF drained[w] THEN "sigdrain"
  ELSE "select"

\* the script's KEYS for sample order o
samplesOf(w, o) == [i \in 1..Len(o) |-> sampleKeys(w, o[i])]

\* append growing a full slice of pointers: the capacity doubles
growslice(c) == IF c = 0 THEN 1 ELSE 2 * c

\* the capacity of a slice built from nil by n appends of one element
RECURSIVE capAfterAppends(_)
capAfterAppends(n) ==
  IF n = 0 THEN 0
  ELSE IF n > capAfterAppends(n - 1) THEN growslice(capAfterAppends(n - 1))
  ELSE capAfterAppends(n - 1)

\* the backing array funcToMiddleware leaves behind its result: the handlers
\* and the spare slots
backingArray(fns) ==
  [i \in 1..capAfterAppends(Len(fns)) |-> IF i <= Len(fns) THEN fns[i] ELSE ""]

\* middleware := append(w.middleware, jt.middleware...): when the elements
\* fit the capacity of w.middleware they are written into its backing array,
\* which is the one of wp.middleware for every worker of the pool; else the
\* result is a fresh array
appendMiddleware(w, extra) ==
  IF Len(wmiddleware[w]) + Len(extra) <= Len(mwArray[poolID(w)])
  THEN /\ mwArray' = [mwArray EXCEPT ![poolID(w)] =
                        [i \in DOMAIN @ |->
                           IF /\ i > Len(wmiddleware[w])
                              /\ i <= Len(wmiddleware[w]) + Len(extra)
                           THEN extra[i - Len(wmiddleware[w])] ELSE @[i]]]
       /\ mwLocal' = [mwLocal EXCEPT ![w] =
                        [shared |-> TRUE,
                         len |-> Len(wmiddleware[w]) + Len(extra),
                         own |-> <<>>]]
  ELSE /\ mwLocal' = [mwLocal EXCEPT ![w] =
                        [shared |-> FALSE,
                         len |-> Len(wmiddleware[w]) + Len(extra),
                         own |-> wmiddleware[w] \o extra]]
       /\ UNCHANGED mwArray

\* the elements of processJob's slice middleware as runJob reads them
chainOf(w) ==
  IF mwLocal[w].shared THEN SubSeq(mwArray[poolID(w)], 1, mwLocal[w].len)
  ELSE mwLocal[w].own

\* fetchJob: sample, run the script, decode the payload (an error of newJob
\* goes the way of every fetch error: timer.Reset(10ms)); then the loop's
\* branch on the result
fetchJob(w) ==
  /\ pc[w] = "fetch"
  /\ w \in observed => consequtiveNoJobs[w] < MaxIdle
  /\ \E o \in Orders :
       LET samples == samplesOf(w, o)
           i == FirstFetchable(samples, 1)
       IN IF i = 0
          THEN /\ pc' = [pc EXCEPT ![w] = loopBranch(w, NoPayload)]
               /\ IF loopBranch(w, NoPayload) = "select"
                  THEN loopEnds(w, "nil") ELSE UNCHANGED idle
               /\ UNCHANGED <<jobs, inprogress, lock, lock_info, job, mwArray,
                              mwLocal>>
          ELSE /\ redisLuaFetchJob(samples[i], poolID(w))
               /\ IF Decodable(RPopped(jobs[samples[i].redisJobs]))
                  THEN /\ job' = [job EXCEPT ![w] =
                                    [rawJSON |-> RPopped(jobs[samples[i].redisJobs]),
                                     inProgQueue |-> samples[i].redisJobsInProg,
                                     marshalable |-> TRUE]]
                       /\ pc' = [pc EXCEPT ![w] =
                                   loopBranch(w, RPopped(jobs[samples[i].redisJobs]))]
                       /\ IF loopBranch(w, RPopped(jobs[samples[i].redisJobs])) = "run"
                          THEN appendMiddleware(w,
                                 jobTypes[RPopped(jobs[samples[i].redisJobs]).name].middleware)
                          ELSE UNCHANGED <<mwArray, mwLocal>>
                       /\ UNCHANGED idle
                  ELSE /\ job' = job
                       /\ pc' = [pc EXCEPT ![w] = "select"]
                       /\ loopEnds(w, "err")
                       /\ UNCHANGED <<mwArray, mwLocal>>
  /\ runErr' = [runErr EXCEPT ![w] = "nil"]
  /\ UNCHANGED <<jobTypes, running, drainCall, ranChain, enq, reaping, chains, hookRuns, paused, max_concurrency, retry, scheduled, dead,
                 unique, nextID, now, started, drained, abandoned, chans>>

\* fetchJob returns an error before the script ran: timer.Reset(10ms)
fetchError(w) ==
  /\ pc[w] = "fetch"
  /\ pc' = [pc EXCEPT ![w] = "select"]
  /\ loopEnds(w, "err")
  /\ UNCHANGED <<jobTypes, running, drainCall, alias, enq, reaping, chains, hookRuns, store, nextID, now, started, job, runErr, drained,
                 abandoned, chans>>

\* ------------------------------------------------------ worker.processJob
\* (mutation) the removal without the lock decrement
removeWithoutDecr(w) ==
  /\ inprogress' =
       [inprogress EXCEPT ![job[w].inProgQueue[1]][job[w].inProgQueue[2]] =
          LRem(@, job[w].rawJSON)]
  /\ UNCHANGED <<lock, lock_info>>

\* LREM job.inProgQueue 1 job.rawJSON; DECR lock; HINCRBY lock_info pool -1
\* (the three commands every MULTI/EXEC batch of the worker starts with)
removeJobFromInProgress(w) ==
  /\ inprogress' =
       [inprogress EXCEPT ![job[w].inProgQueue[1]][job[w].inProgQueue[2]] =
          LRem(@, job[w].rawJSON)]
  /\ lock' = [lock EXCEPT ![job[w].rawJSON.name] = @ - 1]
  /\ lock_info' = [lock_info EXCEPT ![job[w].rawJSON.name][poolID(w)] = @ - 1]

\* job.failed(err) followed by job.serialize(): fails bumped, lastErr set
failed(j, e) == [j EXCEPT !.fails = @ + 1, !.err = e]

\* the draws of rand.Int63n(30) that are told apart: the least, the greatest
Jitter == {0, 29}

\* (mutation) the default backoff without its floor of 15 seconds
defaultBackoffWithoutFloor(j, r) ==
  (j.fails * j.fails * j.fails * j.fails) + (r * (j.fails + 1))

\* defaultBackoffCalculator with r the draw of rand.Int63n(30)
defaultBackoffCalculator(j, r) ==
  (j.fails * j.fails * j.fails * j.fails) + 15 + (r * (j.fails + 1))

\* backoff(job): the job type's Backoff (a constant custom backoff) when a
\* job type is registered for job.Name and its Backoff is not nil, else the
\* default
backoff(j, r) ==
  IF j.name \in DOMAIN jobTypes /\ ~jobTypes[j.name].Backoff.nil
  THEN jobTypes[j.name].Backoff.secs
  ELSE defaultBackoffCalculator(j, r)

\* (mutation) ZADD retry without the removal from in-progress
addToRetryWithoutRemoval(w, j) ==
  /\ \E r \in Jitter :
       retry' = retry \cup {[job |-> j, score |-> now + backoff(j, r)]}
  /\ UNCHANGED <<inprogress, lock, lock_info, dead>>

\* job.serialize() is json.Marshal of the job the handler was given: it
\* fails when the handler left a value in job.Args that cannot be encoded
serialize(w) == job[w].marshalable

\* (mutation) a serialize error still removes the in-progress entry
removeOnSerializeError(w) ==
  /\ removeJobFromInProgress(w)
  /\ UNCHANGED <<retry, dead>>

\* rawJSON, err := job.serialize(); if err != nil { logError; return }:
\* the call is over before a connection is taken
returnOnSerializeError(w) ==
  UNCHANGED <<inprogress, lock, lock_info, retry, dead>>

\* addToRetry: the removal and ZADD retry <now + backoff(job)>, one batch
addToRetry(w, j) ==
  IF ~serialize(w) THEN returnOnSerializeError(w)
  ELSE /\ removeJobFromInProgress(w)
       /\ \E r \in Jitter :
            retry' = retry \cup {[job |-> j, score |-> now + backoff(j, r)]}
       /\ UNCHANGED dead

\* addToDead: the removal and ZADD dead <now>, one batch
addToDead(w, j) ==
  IF ~serialize(w) THEN returnOnSerializeError(w)
  ELSE /\ removeJobFromInProgress(w)
       /\ dead' = dead \cup {[job |-> j, score |-> now]}
       /\ UNCHANGED retry

\* (mutation) the type assertion never succeeds
isNoRetryErrorNever(e) == FALSE

\* _, isNoRetryError := runErr.(*NoRetryError)
isNoRetryError(e) == e = "noretry"

\* (mutation) the fails left, counted before this failure
failsRemainingBefore(jt, j) == jt.MaxFails - j.fails + 1

\* failsRemaining := int64(jt.MaxFails) - job.Fails
failsRemaining(jt, j) == jt.MaxFails - j.fails

\* addToRetryOrDead's choice
routeOf(jt, j, e) ==
  IF failsRemaining(jt, j) > 0 /\ ~isNoRetryError(e) THEN "retry"
  ELSE IF ~jt.SkipDead THEN "dead"
  ELSE "remove"

addToRetryOrDead(w, jt, j, e) ==
  CASE routeOf(jt, j, e) = "retry" -> addToRetry(w, j)
    [] routeOf(jt, j, e) = "dead" -> addToDead(w, j)
    [] OTHER -> removeJobFromInProgress(w) /\ UNCHANGED <<retry, dead>>

\* where the worker goes when processJob's body is over: the deferred
\* deleteUniqueJob when job.Unique, else back to the loop (timer.Reset(0))
afterBody(w) == IF job[w].rawJSON.unique THEN "defer" ELSE "select"

\* what the loop holds once processJob returned
afterProcess(w) == NoJob

\* (mutation) a job past its starting deadline is routed as a failure
dropJobAsFailure(w) ==
  /\ pc[w] = "drop"
  /\ addToDead(w, failed(job[w].rawJSON, "starting deadline"))
  /\ pc' = [pc EXCEPT ![w] = afterBody(w)]
  /\ job' = [job EXCEPT ![w] =
               IF afterBody(w) = "select" THEN afterProcess(w) ELSE @]
  /\ loopEnds(w, IF afterBody(w) = "select" THEN "job" ELSE "defer")
  /\ UNCHANGED <<jobTypes, running, drainCall, alias, enq, reaping, chains, hookRuns, jobs, paused,
                 max_concurrency, scheduled, unique, nextID, now, started,
                 runErr, drained, abandoned, chans>>

\* the starting-deadline drop: removeJobFromInProgress and return
dropJob(w) ==
  /\ pc[w] = "drop"
  /\ removeJobFromInProgress(w)
  /\ pc' = [pc EXCEPT ![w] = afterBody(w)]
  /\ job' = [job EXCEPT ![w] =
               IF afterBody(w) = "select" THEN afterProcess(w) ELSE @]
  /\ loopEnds(w, IF afterBody(w) = "select" THEN "job" ELSE "defer")
  /\ UNCHANGED <<jobTypes, running, drainCall, alias, enq, reaping, chains, hookRuns, jobs, paused, max_concurrency, retry, scheduled, dead,
                 unique, nextID, now, started, runErr, drained, abandoned,
                 chans>>

\* (mutation) the stray job is given another try
strayJobRetried(w) ==
  /\ pc[w] = "stray"
  /\ addToRetry(w, failed(job[w].rawJSON, "stray job: no handler"))
  /\ pc' = [pc EXCEPT ![w] = afterBody(w)]
  /\ job' = [job EXCEPT ![w] =
               IF afterBody(w) = "select" THEN afterProcess(w) ELSE @]
  /\ loopEnds(w, IF afterBody(w) = "select" THEN "job" ELSE "defer")
  /\ UNCHANGED <<jobTypes, running, drainCall, alias, enq, reaping, chains, hookRuns, jobs, paused,
                 max_concurrency, scheduled, unique, nextID, now, started,
                 runErr, drained, abandoned, chans>>

\* no job type for job.Name: job.failed, addToDead
strayJob(w) ==
  /\ pc[w] = "stray"
  /\ addToDead(w, failed(job[w].rawJSON, "stray job: no handler"))
  /\ pc' = [pc EXCEPT ![w] = afterBody(w)]
  /\ job' = [job EXCEPT ![w] =
               IF afterBody(w) = "select" THEN afterProcess(w) ELSE @]
  /\ loopEnds(w, IF afterBody(w) = "select" THEN "job" ELSE "defer")
  /\ UNCHANGED <<jobTypes, running, drainCall, alias, enq, reaping, chains, hookRuns, jobs, paused, max_concurrency, scheduled, unique, nextID,
                 now, started, runErr, drained, abandoned, chans>>

\* the runHook calls of this processJob once the select took the case:
\* runHook(job, ctx, hook) is called in the chErr case only
runHook(w, case) == IF case = "chErr" THEN hookRuns[w] + 1 ELSE hookRuns[w]

\* case runErr = <-chErr: the handler task returned e; ctx is read from
\* chCtx and the hooks run
handlerDone(w, e) ==
  /\ pc[w] = "run"
  /\ jobTypes[job[w].rawJSON.name].handler = "user"
  /\ pc' = [pc EXCEPT ![w] = "route"]
  /\ runErr' = [runErr EXCEPT ![w] = e]
  /\ hookRuns' = [hookRuns EXCEPT ![w] = runHook(w, "chErr")]
  /\ ranChain' = [ranChain EXCEPT ![w] = chainOf(w)]
  /\ UNCHANGED <<jobTypes, running, drainCall, mwArray, mwLocal, idle, enq, reaping, chains, store, nextID, now, started,
                 job, drained, abandoned, chans>>

\* case runErr = <-chErr, after a handler that stored in job.Args a value
\* json.Marshal rejects (the handler holds the *Job)
handlerSpoilsArgs(w, e) ==
  /\ pc[w] = "run"
  /\ jobTypes[job[w].rawJSON.name].handler = "user"
  /\ pc' = [pc EXCEPT ![w] = "route"]
  /\ runErr' = [runErr EXCEPT ![w] = e]
  /\ hookRuns' = [hookRuns EXCEPT ![w] = runHook(w, "chErr")]
  /\ ranChain' = [ranChain EXCEPT ![w] = chainOf(w)]
  /\ job' = [job EXCEPT ![w].marshalable = FALSE]
  /\ UNCHANGED <<jobTypes, running, drainCall, mwArray, mwLocal, idle, enq, reaping, chains, store, nextID, now, started,
                 drained, abandoned, chans>>

\* (mutation) the timeout is noted but the loop goes on waiting on chErr
handlerTimeoutKeepsWaiting(w) ==
  /\ pc[w] = "run"
  /\ runErr' = [runErr EXCEPT ![w] = "Run Job Timeout"]
  /\ UNCHANGED <<jobTypes, running, drainCall, alias, idle, enq, reaping, chains, hookRuns, store, nextID, now, started, pc, job, drained,
                 abandoned, chans>>

\* case <-time.After(timeout): the handler task is left running
handlerTimeout(w) ==
  /\ pc[w] = "run"
  /\ pc' = [pc EXCEPT ![w] = "route"]
  /\ runErr' = [runErr EXCEPT ![w] = "Run Job Timeout"]
  /\ abandoned' = [abandoned EXCEPT ![job[w].rawJSON.name] = @ + 1]
  /\ hookRuns' = [hookRuns EXCEPT ![w] = runHook(w, "timeout")]
  /\ UNCHANGED <<jobTypes, running, drainCall, alias, idle, enq, reaping, chains, store, nextID, now, started, job, drained, chans>>

\* a handler task nobody waits for returns at last
abandonedReturn(n) ==
  /\ abandoned[n] > 0
  /\ abandoned' = [abandoned EXCEPT ![n] = @ - 1]
  /\ UNCHANGED <<jobTypes, running, drainCall, alias, idle, enq, reaping, chains, hookRuns, store, nextID, now, started, pc, job, runErr, drained, chans>>

\* (mutation) after a clear the in-progress entry is left alone
routeJobKeepsCleared(w) ==
  /\ pc[w] = "route"
  /\ IF runErr[w] # "nil"
     THEN addToRetryOrDead(w, jobTypes[job[w].rawJSON.name],
                           failed(job[w].rawJSON, runErr[w]), runErr[w])
     ELSE IF hookRuns[w] = 0
     THEN UNCHANGED <<inprogress, lock, lock_info, retry, dead>>
     ELSE removeJobFromInProgress(w) /\ UNCHANGED <<retry, dead>>
  /\ pc' = [pc EXCEPT ![w] = afterBody(w)]
  /\ job' = [job EXCEPT ![w] =
               IF afterBody(w) = "select" THEN afterProcess(w) ELSE @]
  /\ loopEnds(w, IF afterBody(w) = "select" THEN "job" ELSE "defer")
  /\ hookRuns' = [hookRuns EXCEPT ![w] = 0]
  /\ mwLocal' = [mwLocal EXCEPT ![w] = NoSlice]
  /\ ranChain' = [ranChain EXCEPT ![w] = <<>>]
  /\ UNCHANGED <<jobTypes, running, drainCall, mwArray, enq, reaping, chains, jobs, paused, max_concurrency,
                 scheduled, unique, nextID, now, started, runErr, drained,
                 abandoned, chans>>

\* after the select: observeDone, then remove or route
routeJob(w) ==
  /\ pc[w] = "route"
  /\ IF runErr[w] # "nil"
     THEN addToRetryOrDead(w, jobTypes[job[w].rawJSON.name],
                           failed(job[w].rawJSON, runErr[w]), runErr[w])
     ELSE removeJobFromInProgress(w) /\ UNCHANGED <<retry, dead>>
  /\ pc' = [pc EXCEPT ![w] = afterBody(w)]
  /\ job' = [job EXCEPT ![w] =
               IF afterBody(w) = "select" THEN afterProcess(w) ELSE @]
  /\ loopEnds(w, IF afterBody(w) = "select" THEN "job" ELSE "defer")
  /\ hookRuns' = [hookRuns EXCEPT ![w] = 0]
  /\ mwLocal' = [mwLocal EXCEPT ![w] = NoSlice]
  /\ ranChain' = [ranChain EXCEPT ![w] = <<>>]
  /\ UNCHANGED <<jobTypes, running, drainCall, mwArray, enq, reaping, chains, jobs, paused, max_concurrency, scheduled, unique, nextID,
                 now, started, runErr, drained, abandoned, chans>>

\* the deferred deleteUniqueJob: DEL unique:<hash(job.Name, job.Args)>
deleteUniqueJob(w) ==
  /\ pc[w] = "defer"
  /\ unique' = unique \ {<<job[w].rawJSON.name, job[w].rawJSON.args>>}
  /\ pc' = [pc EXCEPT ![w] = "select"]
  /\ job' = [job EXCEPT ![w] = afterProcess(w)]
  /\ loopEnds(w, "job")
  /\ UNCHANGED <<jobTypes, running, drainCall, alias, enq, reaping, chains, hookRuns, jobs, inprogress, lock, lock_info, paused, max_concurrency,
                 retry, scheduled, dead, nextID, now, started, runErr,
                 drained, abandoned, chans>>

Handled == {"nil", "boom", "noretry"}

\* ----------------------------------------------------- WorkerPool.Stop
\* Stop: guarded by wp.started; one goroutine per worker calls w.stop(),
\* which blocks sending on w.stopChan
Stop(p) ==
  /\ started[p]
  /\ poolCall[p] = "none"
  /\ started' = [started EXCEPT ![p] = FALSE]
  /\ poolCall' = [poolCall EXCEPT ![p] = "stop"]
  /\ stopReq' = [w \in Workers |-> IF w \in workers(p) THEN "send" ELSE stopReq[w]]
  /\ UNCHANGED <<jobTypes, running, drainCall, alias, idle, enq, reaping, chains, hookRuns, store, nextID, now, pc, job, runErr, drained, abandoned,
                 drainReq, clearReq>>

\* (mutation) stopChan is also polled while the handler runs
stopReadyWhileRunning(w) == pc[w] \in {"select", "run"}

\* may the loop take a value from stopChan: only in its select
stopReady(w) == pc[w] = "select"

\* case <-w.stopChan
stopRecv(w) ==
  /\ stopReady(w)
  /\ stopReq[w] = "send"
  /\ pc' = [pc EXCEPT ![w] = "ackstop"]
  /\ stopReq' = [stopReq EXCEPT ![w] = "wait"]
  /\ UNCHANGED <<jobTypes, running, drainCall, alias, idle, enq, reaping, chains, hookRuns, store, nextID, now, started, job, runErr, drained,
                 abandoned, drainReq, clearReq, poolCall>>

\* w.doneStoppingChan <- struct{}{}; return    (w.stop() goes on)
stopAck(w) ==
  /\ pc[w] = "ackstop"
  /\ stopReq[w] = "wait"
  /\ pc' = [pc EXCEPT ![w] = "off"]
  /\ stopReq' = [stopReq EXCEPT ![w] = "done"]
  /\ UNCHANGED <<jobTypes, running, drainCall, alias, idle, enq, reaping, chains, hookRuns, store, nextID, now, started, job, runErr, drained,
                 abandoned, drainReq, clearReq, poolCall>>

\* wg.Wait() of a pool operation is over: every goroutine of it returned
waitDone(p, req) == \A w \in workers(p) : req[w] = "done"

\* wg.Wait() returns, the background components are stopped (the instance
\* each field of the pool refers to), Stop returns
StopReturn(p) ==
  /\ poolCall[p] = "stop"
  /\ waitDone(p, stopReq)
  /\ poolCall' = [poolCall EXCEPT ![p] = "none"]
  /\ running' = [running EXCEPT ![p] = [c \in Components |-> @[c] - 1]]
  /\ stopReq' = [w \in Workers |-> IF w \in workers(p) THEN "none" ELSE stopReq[w]]
  /\ UNCHANGED <<jobTypes, drainCall, alias, idle, enq, reaping, chains, hookRuns, store, nextID, now, started, pc, job, runErr, drained,
                 abandoned, drainReq, clearReq>>

\* ---------------------------------------------------- WorkerPool.Drain
\* Drain: one goroutine per worker calls w.drain(), which blocks sending on
\* w.drainChan
Drain(p) ==
  /\ poolCall[p] = "none"
  /\ poolCall' = [poolCall EXCEPT ![p] = "drain"]
  /\ drainReq' = [w \in Workers |-> IF w \in workers(p) THEN "send" ELSE drainReq[w]]
  /\ UNCHANGED <<jobTypes, running, drainCall, alias, idle, enq, reaping, chains, hookRuns, store, nextID, now, started, pc, job, runErr, drained,
                 abandoned, stopReq, clearReq>>

\* case <-w.drainChan: drained = true; timer.Reset(0)
drainRecv(w) ==
  /\ pc[w] = "select"
  /\ drainReq[w] = "send"
  /\ drained' = [drained EXCEPT ![w] = TRUE]
  /\ drainReq' = [drainReq EXCEPT ![w] = "wait"]
  /\ loopEnds(w, "drain")
  /\ UNCHANGED <<jobTypes, running, drainCall, alias, enq, reaping, chains, hookRuns, store, nextID, now, started, pc, job, runErr, abandoned,
                 stopReq, clearReq, poolCall>>

\* w.doneDrainingChan <- struct{}{}; drained = false   (w.drain() goes on)
drainDone(w) ==
  /\ pc[w] = "sigdrain"
  /\ drainReq[w] = "wait"
  /\ pc' = [pc EXCEPT ![w] = "select"]
  /\ drained' = [drained EXCEPT ![w] = FALSE]
  /\ drainReq' = [drainReq EXCEPT ![w] = "done"]
  /\ loopEnds(w, "nil")
  /\ UNCHANGED <<jobTypes, running, drainCall, alias, enq, reaping, chains, hookRuns, store, nextID, now, started, job, runErr, abandoned,
                 stopReq, clearReq, poolCall>>

\* wg.Wait() returns, Drain returns
DrainReturn(p) ==
  /\ poolCall[p] = "drain"
  /\ waitDone(p, drainReq)
  /\ poolCall' = [poolCall EXCEPT ![p] = "none"]
  /\ drainReq' = [w \in Workers |-> IF w \in workers(p) THEN "none" ELSE drainReq[w]]
  /\ UNCHANGED <<jobTypes, running, drainCall, alias, idle, enq, reaping, chains, hookRuns, store, nextID, now, started, pc, job, runErr, drained,
                 abandoned, stopReq, clearReq>>

\* ------------------------------------------------ WorkerPool.workerDrain
\* worker.workerID (makeIdentifier), as the job's worker_id argument names it
workerID(w) ==
  CASE w = "w1" -> 1 [] w = "w2" -> 2 [] w = "w3" -> 3 [] OTHER -> 4

\* the workers of the handler's pool whose workerID is the job's worker_id
drainTargets(h) ==
  {v \in workers(poolID(h)) : workerID(v) = job[h].rawJSON.args}

\* the handler task of worker h's job runs workerDrain: it calls v.drain()
\* for the worker v named by worker_id and blocks sending on v.drainChan;
\* with no such worker it is about to return nil
workerDrainCall(h) ==
  /\ pc[h] = "run"
  /\ jobTypes[job[h].rawJSON.name].handler = "workerDrain"
  /\ drainCall[h] = "none"
  /\ drainCall' = [drainCall EXCEPT ![h] =
                     IF drainTargets(h) = {} THEN "done" ELSE "send"]
  /\ UNCHANGED <<jobTypes, running, alias, idle, enq, reaping, chains, hookRuns, store,
                 nextID, now, started, pc, job, runErr, drained, abandoned,
                 chans>>

\* may the loop take a value from drainChan: only in its select
drainReady(v) == pc[v] = "select"

\* case <-w.drainChan, the sender being the handler task of worker h
drainRecvFrom(v, h) ==
  /\ drainReady(v)
  /\ drainCall[h] = "send"
  /\ v \in drainTargets(h)
  /\ drained' = [drained EXCEPT ![v] = TRUE]
  /\ drainCall' = [drainCall EXCEPT ![h] = "wait"]
  /\ loopEnds(v, "drain")
  /\ UNCHANGED <<jobTypes, running, alias, enq, reaping, chains, hookRuns, store,
                 nextID, now, started, pc, job, runErr, abandoned, chans>>

\* w.doneDrainingChan <- struct{}{}; drained = false, the receiver being the
\* handler task of worker h
drainDoneTo(v, h) ==
  /\ pc[v] = "sigdrain"
  /\ drainCall[h] = "wait"
  /\ v \in drainTargets(h)
  /\ pc' = [pc EXCEPT ![v] = "select"]
  /\ drained' = [drained EXCEPT ![v] = FALSE]
  /\ drainCall' = [drainCall EXCEPT ![h] = "done"]
  /\ loopEnds(v, "nil")
  /\ UNCHANGED <<jobTypes, running, alias, enq, reaping, chains, hookRuns, store,
                 nextID, now, started, job, runErr, abandoned, chans>>

\* case runErr = <-chErr for a workerDrain handler: v.drain() returned (or
\* no worker matched) and the handler returned nil
workerDrainReturn(h) ==
  /\ pc[h] = "run"
  /\ jobTypes[job[h].rawJSON.name].handler = "workerDrain"
  /\ drainCall[h] = "done"
  /\ pc' = [pc EXCEPT ![h] = "route"]
  /\ runErr' = [runErr EXCEPT ![h] = "nil"]
  /\ hookRuns' = [hookRuns EXCEPT ![h] = runHook(h, "chErr")]
  /\ ranChain' = [ranChain EXCEPT ![h] = chainOf(h)]
  /\ drainCall' = [drainCall EXCEPT ![h] = "none"]
  /\ UNCHANGED <<jobTypes, running, mwArray, mwLocal, idle, enq, reaping, chains, store,
                 nextID, now, started, job, drained, abandoned, chans>>

\* ------------------------------------------------------ worker.ClearWorker
\* ClearWorker blocks sending on w.clearChan
ClearWorker(w) ==
  /\ clearReq[w] = "none"
  /\ clearReq' = [clearReq EXCEPT ![w] = "send"]
  /\ UNCHANGED <<jobTypes, running, drainCall, alias, idle, enq, reaping, chains, hookRuns, store, nextID, now, started, pc, job, runErr, drained,
                 abandoned, stopReq, drainReq, poolCall>>

\* case <-w.clearChan, inside processJob's select: the handler task is left
\* running
clearRecv(w) ==
  /\ pc[w] = "run"
  /\ clearReq[w] = "send"
  /\ pc' = [pc EXCEPT ![w] = "ackclear"]
  /\ clearReq' = [clearReq EXCEPT ![w] = "wait"]
  /\ abandoned' = [abandoned EXCEPT ![job[w].rawJSON.name] = @ + 1]
  /\ UNCHANGED <<jobTypes, running, drainCall, alias, idle, enq, reaping, chains, hookRuns, store, nextID, now, started, job, runErr, drained,
                 stopReq, drainReq, poolCall>>

\* w.doneClearingChan <- struct{}{}; break: runErr is still nil
clearAck(w) ==
  /\ pc[w] = "ackclear"
  /\ clearReq[w] = "wait"
  /\ pc' = [pc EXCEPT ![w] = "route"]
  /\ clearReq' = [clearReq EXCEPT ![w] = "none"]
  /\ hookRuns' = [hookRuns EXCEPT ![w] = runHook(w, "clear")]
  /\ UNCHANGED <<jobTypes, running, drainCall, alias, idle, enq, reaping, chains, store, nextID, now, started, job, runErr, drained,
                 abandoned, stopReq, drainReq, poolCall>>

\* ---------------------------------------------------- periodic enqueuer
\* wp.periodicJobs after PeriodicallyEnqueue(spec, "a"): the schedule fires
\* at every unit of the clock
PeriodicJobs == {"a"}

\* the lease's expiry and the enqueuer's sleep (~30 s): one unit of the clock
LeaseTTL == 1

\* how far ahead the enqueuer inserts (2 hours): one unit more than the sleep
Horizon == 2

\* the firing times from t0 up to t0 + Horizon
Firings(t0) == t0..(t0 + Horizon)

\* (mutation) the id is drawn from the time of insertion
PeriodicJobStamped(n, t) ==
  [id |-> 100 + 10 * now + t, name |-> n, args |-> 0, unique |-> FALSE,
   fails |-> 0, err |-> "", scheduled_at |-> 0]

\* the payload of the occurrence (n, t): its id is a hash of (n, t)
PeriodicJob(n, t) ==
  [id |-> 100 + t, name |-> n, args |-> 0, unique |-> FALSE,
   fails |-> 0, err |-> "", scheduled_at |-> 0]

\* step 1 and the computation of step 2: take the lease if it is free or
\* expired; the holder goes on to the firing times of its window
periodicAcquire(p) ==
  /\ isRunning(p, "periodicEnqueuer")
  /\ penq[p].todo = {} /\ penq[p].last < now
  /\ \/ /\ lease.holder = "" \/ lease.expires <= now
        /\ lease' = [holder |-> p, expires |-> now + LeaseTTL]
     \/ /\ lease.holder = p /\ lease.expires > now
        /\ lease' = lease
  /\ penq' = [penq EXCEPT ![p] =
                [todo |-> {<<n, t>> : n \in PeriodicJobs, t \in Firings(now)},
                 last |-> now]]
  /\ UNCHANGED <<jobTypes, running, drainCall, alias, idle, store, nextID, now, started, pc, job, runErr,
                 drained, abandoned, chans, reaping, chains, hookRuns>>

\* step 2, one firing: ZADD scheduled t payload
periodicInsert(p) ==
  /\ \E f \in penq[p].todo :
       /\ scheduled' = scheduled \cup
             {[job |-> PeriodicJob(f[1], f[2]), score |-> f[2]]}
       /\ penq' = [penq EXCEPT ![p].todo = @ \ {f}]
  /\ UNCHANGED <<jobTypes, running, drainCall, alias, idle, jobs, inprogress, lock, lock_info, paused,
                 max_concurrency, retry, dead, unique, nextID, now, started,
                 pc, job, runErr, drained, abandoned, chans, lease, reaping,
                 chains, hookRuns>>

\* ------------------------------------------- heartbeater, dead-pool reaper
\* the stale cutoff of a heartbeat (5 minutes): one unit of the clock
Stale == 1

\* a beat of pool p's heartbeater: HSET heartbeat_at, SADD worker_pools
heartbeatBeat(p) ==
  /\ isRunning(p, "heartbeater") /\ ~crashed[p]
  /\ heartbeat[p] # now \/ p \notin worker_pools
  /\ heartbeat' = [heartbeat EXCEPT ![p] = now]
  /\ worker_pools' = worker_pools \cup {p}
  /\ UNCHANGED <<jobTypes, running, drainCall, alias, idle, store, nextID, now, started, pc, job, runErr,
                 drained, abandoned, chans, enq, crashed, reap, chains,
                 hookRuns>>

\* the process of pool p dies: its workers and background tasks take no
\* further step, what it wrote to the store stays
Crash(p) ==
  /\ started[p] /\ ~crashed[p]
  /\ crashed' = [crashed EXCEPT ![p] = TRUE]
  /\ UNCHANGED <<jobTypes, running, drainCall, alias, idle, store, nextID, now, started, pc, job, runErr,
                 drained, abandoned, chans, enq, worker_pools, heartbeat,
                 reap, chains, hookRuns>>

\* step 1 of q's reaper: enumerate worker_pools (one listed id at a time)
reapEnumerate(q) ==
  /\ isRunning(q, "deadPoolReaper") /\ ~crashed[q]
  /\ reap[q].pc = "idle"
  /\ \E d \in worker_pools :
       reap' = [reap EXCEPT ![q] = [pc |-> "examine", dead |-> d, names |-> {}]]
  /\ UNCHANGED <<jobTypes, running, drainCall, alias, idle, store, nextID, now, started, pc, job, runErr,
                 drained, abandoned, chans, enq, worker_pools, heartbeat,
                 crashed, chains, hookRuns>>

\* step 2: the pool is dead when its heartbeat is missing or stale; its
\* job_names are read from the heartbeat. A live pool beats every 5 seconds,
\* so only a crashed pool's heartbeat gets as old as the cutoff.
reapExamine(q) ==
  /\ reap[q].pc = "examine"
  /\ LET d == reap[q].dead
     IN reap' = [reap EXCEPT ![q] =
                   IF heartbeat[d] = -1
                   THEN [pc |-> "requeue", dead |-> d, names |-> {}]
                   ELSE IF crashed[d] /\ now - heartbeat[d] >= Stale
                   THEN [pc |-> "requeue", dead |-> d, names |-> Names]
                   ELSE [pc |-> "idle", dead |-> "", names |-> {}]]
  /\ UNCHANGED <<jobTypes, running, drainCall, alias, idle, store, nextID, now, started, pc, job, runErr,
                 drained, abandoned, chans, enq, worker_pools, heartbeat,
                 crashed, chains, hookRuns>>

\* step 2 for a pool that is alive but late: its heartbeater missed its
\* beats for as long as the cutoff (the process was suspended, or its writes
\* to the store failed), so the reaper finds heartbeat_at stale and treats
\* the pool as dead
reapExamineLate(q) ==
  /\ reap[q].pc = "examine"
  /\ LET d == reap[q].dead
     IN /\ ~crashed[d]
        /\ heartbeat[d] # -1 /\ now - heartbeat[d] >= Stale
        /\ reap' = [reap EXCEPT ![q] =
                      [pc |-> "requeue", dead |-> d, names |-> Names]]
  /\ UNCHANGED <<jobTypes, running, drainCall, alias, idle, store, nextID, now, started, pc, job, runErr,
                 drained, abandoned, chans, enq, worker_pools, heartbeat,
                 crashed, chains, hookRuns>>

\* (mutation) the record is read with LINDEX and pushed: it is not popped
reapRequeueCopy(q) ==
  /\ reap[q].pc = "requeue"
  /\ \E n \in reap[q].names :
       LET d == reap[q].dead IN
       /\ inprogress[d][n] # <<>>
       /\ jobs' = [jobs EXCEPT ![n] = LPush(@, RPopped(inprogress[d][n]))]
       /\ lock' = [lock EXCEPT ![n] = @ - 1]
       /\ lock_info' = [lock_info EXCEPT ![n][d] = @ - 1]
  /\ UNCHANGED <<jobTypes, running, drainCall, alias, idle, inprogress, paused, max_concurrency, retry, scheduled,
                 dead, unique, nextID, now, started, pc, job, runErr, drained,
                 abandoned, chans, enq, reaping, chains, hookRuns>>

\* step 3, one record, in one indivisible operation: RPOPLPUSH from the dead
\* pool's in-progress list to jobs:<name>, DECR lock, HINCRBY lock_info -1
reapRequeue(q) ==
  /\ reap[q].pc = "requeue"
  /\ \E n \in reap[q].names :
       LET d == reap[q].dead IN
       /\ inprogress[d][n] # <<>>
       /\ jobs' = [jobs EXCEPT ![n] = LPush(@, RPopped(inprogress[d][n]))]
       /\ inprogress' = [inprogress EXCEPT ![d][n] = RPopRest(@)]
       /\ lock' = [lock EXCEPT ![n] = @ - 1]
       /\ lock_info' = [lock_info EXCEPT ![n][d] = @ - 1]
  /\ UNCHANGED <<jobTypes, running, drainCall, alias, idle, paused, max_concurrency, retry, scheduled, dead,
                 unique, nextID, now, started, pc, job, runErr, drained,
                 abandoned, chans, enq, reaping, chains, hookRuns>>

\* step 4, once every list of the dead pool's job_names is empty: SREM
\* worker_pools, DEL heartbeat
reapRemove(q) ==
  /\ reap[q].pc = "requeue"
  /\ \A n \in reap[q].names : inprogress[reap[q].dead][n] = <<>>
  /\ worker_pools' = worker_pools \ {reap[q].dead}
  /\ heartbeat' = [heartbeat EXCEPT ![reap[q].dead] = -1]
  /\ reap' = [reap EXCEPT ![q] = [pc |-> "idle", dead |-> "", names |-> {}]]
  /\ UNCHANGED <<jobTypes, running, drainCall, alias, idle, store, nextID, now, started, pc, job, runErr,
                 drained, abandoned, chans, enq, crashed, chains, hookRuns>>

\* ------------------------------------------- WorkerPool.Middleware, Hook
\* the functions a caller registers
Fns == {"f1", "f2"}

\* funcToMiddleware: a fresh slice with one handler per function, nil
\* (the empty sequence) for no function
funcToMiddleware(fns) == fns

\* the field updateMiddlewareAndJobTypes leaves in a worker: the argument
\* unless it is nil
updateChain(old, new) == IF new # <<>> THEN new ELSE old

\* Middlewares: wp.middleware = funcToMiddleware(fns), then every worker's
\* updateMiddlewareAndJobTypes(wp.middleware, nil, wp.jobTypes)
Middlewares(p, fns) ==
  /\ middleware' = [middleware EXCEPT ![p] = funcToMiddleware(fns)]
  /\ wmiddleware' = [w \in Workers |->
                       IF w \in workers(p)
                       THEN updateChain(wmiddleware[w], funcToMiddleware(fns))
                       ELSE wmiddleware[w]]
  /\ mwArray' = [mwArray EXCEPT ![p] = backingArray(funcToMiddleware(fns))]
  /\ UNCHANGED <<jobTypes, running, drainCall, mwLocal, ranChain, idle, store, nextID, now,
                 started, pc, job, runErr, drained, abandoned, chans, enq,
                 reaping, hook, whook, hookRuns>>

\* Middleware(fn): Middlewares([]interface{}{fn})
Middleware(p, fn) == Middlewares(p, <<fn>>)

\* Hooks: wp.hook = funcToMiddleware(fns), then every worker's
\* updateMiddlewareAndJobTypes(nil, wp.hook, wp.jobTypes)
Hooks(p, fns) ==
  /\ hook' = [hook EXCEPT ![p] = funcToMiddleware(fns)]
  /\ whook' = [w \in Workers |->
                 IF w \in workers(p)
                 THEN updateChain(whook[w], funcToMiddleware(fns))
                 ELSE whook[w]]
  /\ UNCHANGED <<jobTypes, running, drainCall, alias, idle, store, nextID, now, started, pc, job, runErr,
                 drained, abandoned, chans, enq, reaping, middleware,
                 wmiddleware, hookRuns>>

\* Hook(fn): Hooks([]interface{}{fn})
Hook(p, fn) == Hooks(p, <<fn>>)

\* --------------------------------------------------------- specifications
\* one worker's loop and processJob (without the starting-deadline drop,
\* which only a scheduled job can take)
workerStep(w) ==
  \/ TimerFire(w)
  \/ fetchJob(w)
  \/ fetchError(w)
  \/ \E e \in Handled : handlerDone(w, e)
  \/ handlerTimeout(w)
  \/ routeJob(w)

\* the retry requeuer, the clock, the handler tasks left behind
background ==
  \/ Tick
  \/ RequeueRetry
  \/ \E n \in Names : abandonedReturn(n)

\* Two pools of one worker each share the names a and b: producers enqueue
\* and schedule, workers fetch, run and route, the requeuers feed back.
Next ==
  \/ \E n \in Names, a \in Args : Enqueue(n, a)
  \/ \E n \in Names, a \in Args, s \in 1..MaxNow : EnqueueIn(n, a, s)
  \/ \E p \in {"P1", "P2"} : Start(p)
  \/ \E w \in {"w1", "w2"} : workerStep(w) \/ dropJob(w)
  \/ RequeueScheduled
  \/ background

Spec == Init /\ [][Next]_vars

\* The same fleet with unique enqueues of name a.
NextUnique ==
  \/ \E a \in Args : EnqueueUnique("a", a)
  \/ \E p \in {"P1", "P2"} : Start(p)
  \/ \E w \in {"w1", "w2"} : workerStep(w) \/ deleteUniqueJob(w)
  \/ background

SpecUnique == Init /\ [][NextUnique]_vars

\* The same fleet with an operator pausing and unpausing names.
NextPause ==
  \/ \E n \in Names, a \in Args : Enqueue(n, a)
  \/ \E n \in Names, v \in BOOLEAN : SetPaused(n, v)
  \/ \E p \in {"P1", "P2"} : Start(p)
  \/ \E w \in {"w1", "w2"} : workerStep(w)
  \/ \E n \in Names : abandonedReturn(n)

SpecPause == Init /\ [][NextPause]_vars

\* One pool of two workers under Start, Stop, Drain and ClearWorker.
NextLoop ==
  \/ \E a \in Args : Enqueue("a", a)
  \/ Start("P3") \/ Stop("P3") \/ StopReturn("P3")
  \/ Drain("P3") \/ DrainReturn("P3")
  \/ \E w \in workers("P3") :
       \/ workerStep(w)
       \/ stopRecv(w) \/ stopAck(w)
       \/ drainRecv(w) \/ drainDone(w)
       \/ clearRecv(w) \/ clearAck(w)
  \/ ClearWorker("w3")
  \/ \E n \in Names : abandonedReturn(n)

SpecLoop == Init /\ [][NextLoop]_vars

\* One pool of two workers whose handlers may never return. The timeout of
\* processJob's select elapses, the store answers the worker's commands and
\* the loop's timer fires.
NextTimeout ==
  \/ \E n \in Names, a \in Args : Enqueue(n, a)
  \/ Start("P3")
  \/ \E w \in workers("P3") : workerStep(w)
  \/ background

SpecTimeout ==
  /\ Init /\ [][NextTimeout]_vars
  /\ \A w \in workers("P3") :
       /\ WF_vars(handlerTimeout(w))
       /\ WF_vars(routeJob(w))
       /\ WF_vars(TimerFire(w))

\* Two pools run the periodic enqueuer for name a while the clock advances
\* and the scheduled requeuer moves the due occurrences to jobs:a.
NextPeriodic ==
  \/ \E p \in {"P1", "P2"} : Start(p) \/ periodicAcquire(p) \/ periodicInsert(p)
  \/ Tick
  \/ RequeueScheduled

SpecPeriodic == Init /\ [][NextPeriodic]_vars

\* Pool P3 fetches and runs jobs with its two workers, beats and may crash;
\* the reapers of the pools P1 and P2 look for dead pools while the clock
\* advances.
NextReap ==
  \/ \E n \in Names, a \in Args : Enqueue(n, a)
  \/ \E p \in Pools : Start(p)
  \/ heartbeatBeat("P3")
  \/ /\ ~crashed["P3"]
     /\ \E w \in workers("P3") :
          \/ TimerFire(w) \/ fetchJob(w)
          \/ handlerDone(w, "nil") \/ routeJob(w)
  \/ Crash("P3")
  \/ Tick
  \/ \E q \in {"P1", "P2"} :
       reapEnumerate(q) \/ reapExamine(q) \/ reapRequeue(q) \/ reapRemove(q)

SpecReap == Init /\ [][NextReap]_vars

\* Pool P3 fetches and runs jobs with its two workers and beats, but its
\* beats may come late; the reaper of pool P1 looks for dead pools while the
\* clock advances. The reaper's moves are followed while no lock is
\* MaxNegative below zero.
NextReapLate ==
  \/ \E n \in Names, a \in Args : Enqueue(n, a)
  \/ \E p \in {"P1", "P3"} : Start(p)
  \/ heartbeatBeat("P3")
  \/ \E w \in workers("P3") :
       \/ TimerFire(w) \/ fetchJob(w)
       \/ handlerDone(w, "nil") \/ routeJob(w)
  \/ Tick
  \/ reapEnumerate("P1") \/ reapExamine("P1") \/ reapExamineLate("P1")
  \/ (\A n \in Names : lock[n] > -MaxNegative) /\ reapRequeue("P1")
  \/ reapRemove("P1")

SpecReapLate == Init /\ [][NextReapLate]_vars

\* Callers register middleware and hooks on the pools, one function a call.
NextChains ==
  \E p \in Pools, fn \in Fns : Middleware(p, fn) \/ Hook(p, fn)

SpecChains == Init /\ [][NextChains]_vars

\* Two pools work on the names a and b while foreign writers push, next to
\* the producers' jobs, envelopes of an unregistered name and bytes that are
\* no envelope.
NextForeign ==
  \/ \E n \in Names, a \in Args : Enqueue(n, a)
  \/ \E q \in Names, n \in StrayNames, a \in Args : EnqueueStray(q, n, a)
  \/ \E q \in Names : EnqueueGarbage(q)
  \/ \E p \in {"P1", "P2"} : Start(p)
  \/ \E w \in {"w1", "w2"} : workerStep(w) \/ strayJob(w)
  \/ \E n \in Names : abandonedReturn(n)

SpecForeign == Init /\ [][NextForeign]_vars

\* The workers of the pools P1 and P2 run handlers that may fail and may
\* leave the job they were given unserializable.
NextSerialize ==
  \/ \E n \in Names, a \in Args : Enqueue(n, a)
  \/ \E p \in {"P1", "P2"} : Start(p)
  \/ \E w \in {"w1", "w2"} :
       \/ TimerFire(w) \/ fetchJob(w)
       \/ \E e \in Handled : handlerDone(w, e) \/ handlerSpoilsArgs(w, e)
       \/ routeJob(w)
  \/ Tick
  \/ RequeueRetry

SpecSerialize == Init /\ [][NextSerialize]_vars

\* One pool of one worker whose loop-local counter and timer are kept:
\* jobs arrive, fetches may fail, the pool may be drained.
NextIdle ==
  \/ \E a \in Args : Enqueue("a", a)
  \/ Start("P1")
  \/ workerStep("w1")
  \/ Drain("P1") \/ drainRecv("w1") \/ drainDone("w1") \/ DrainReturn("P1")
  \/ \E n \in Names : abandonedReturn(n)

SpecIdle == InitWith(Registrations, {"w1"}) /\ [][NextIdle]_vars

\* the registrations the backoff is checked with: name a without a Backoff
\* option, name b with a constant custom one
RegistrationsBackoff ==
  { [n \in Names |->
       [opts(3, FALSE, 0, 0) EXCEPT
          !.Backoff = IF n = "a" THEN [nil |-> TRUE, secs |-> 0]
                                 ELSE [nil |-> FALSE, secs |-> CustomBackoff]]] }

\* the retry requeuer's clock reaches the earliest due time in retry
SleepUntilDue ==
  /\ retry # {}
  /\ \A e \in retry : e.score > now
  /\ \E e \in retry :
       /\ \A d \in retry : e.score <= d.score
       /\ now' = e.score
  /\ UNCHANGED <<jobTypes, running, drainCall, alias, idle, enq, reaping, chains, hookRuns, store,
                 nextID, started, pc, job, runErr, drained, abandoned, chans>>

\* One worker runs jobs that fail and time out; failed jobs wait in retry
\* until they are due and are requeued.
NextBackoff ==
  \/ \E n \in Names, a \in Args : Enqueue(n, a)
  \/ Start("P1")
  \/ workerStep("w1")
  \/ RequeueRetry
  \/ SleepUntilDue
  \/ \E n \in Names : abandonedReturn(n)

SpecBackoff == InitWith(RegistrationsBackoff, {}) /\ [][NextBackoff]_vars

\* NewWorkerPool's registration wp.Job("WorkerDrain:<poolID>",
\* wp.workerDrain), with default options: name b stands for the pool's
\* WorkerDrain job type
RegistrationsWorkerDrain ==
  { [n \in Names |->
       [opts(4, FALSE, 0, 0) EXCEPT
          !.handler = IF n = "b" THEN "workerDrain" ELSE "user"]] }

\* the worker_id arguments of the WorkerDrain jobs that are enqueued: the
\* ids of the two workers of P3 and an id no worker has
DrainArgs == {3, 4, 9}

\* the steps of worker w's loop and of its handler task for WorkerDrain jobs
workerDrainStep(w) ==
  \/ TimerFire(w) \/ fetchJob(w) \/ routeJob(w)
  \/ workerDrainCall(w) \/ workerDrainReturn(w)
  \/ \E h \in workers("P3") : drainRecvFrom(w, h) \/ drainDoneTo(w, h)

\* The pool P3 is started and its two workers process WorkerDrain jobs; the
\* timeout of these jobs (14 days) is beyond the horizon.
NextWorkerDrain ==
  \/ \E a \in DrainArgs : Enqueue("b", a)
  \/ Start("P3")
  \/ \E w \in workers("P3") : workerDrainStep(w)

\* every goroutine that can take a step takes it; the loop's select picks
\* among its ready cases at random, so a send on drainChan that is ready
\* again and again is taken
SpecWorkerDrain ==
  /\ InitWith(RegistrationsWorkerDrain, {}) /\ [][NextWorkerDrain]_vars
  /\ \A w \in workers("P3") :
       /\ WF_vars(TimerFire(w)) /\ WF_vars(fetchJob(w)) /\ WF_vars(routeJob(w))
       /\ WF_vars(workerDrainCall(w)) /\ WF_vars(workerDrainReturn(w))
       /\ \A h \in workers("P3") :
            SF_vars(drainRecvFrom(w, h)) /\ WF_vars(drainDoneTo(w, h))

\* The pool P3 processes WorkerDrain jobs while its owner calls Drain and
\* Stop.
NextDrainRace ==
  \/ \E a \in DrainArgs : Enqueue("b", a)
  \/ Start("P3") \/ Stop("P3") \/ StopReturn("P3")
  \/ Drain("P3") \/ DrainReturn("P3")
  \/ \E w \in workers("P3") :
       \/ workerDrainStep(w)
       \/ stopRecv(w) \/ stopAck(w)
       \/ drainRecv(w) \/ drainDone(w)

SpecDrainRace ==
  InitWith(RegistrationsWorkerDrain, {}) /\ [][NextDrainRace]_vars

\* the registrations of JobWithMiddlewares: each name with a middleware of
\* its own
RegistrationsWithMiddlewares ==
  { [n \in Names |->
       [opts(2, FALSE, 0, 0) EXCEPT
          !.middleware = IF n = "a" THEN <<"ma">> ELSE <<"mb">>]] }

\* the pool-level chains a caller registers before Start
PoolChains == {<<"f1", "f2">>, <<"f1", "f2", "f3">>}

\* The pool P3 is given its middleware, is started, and its two workers run
\* jobs of the names a and b side by side.
NextAlias ==
  \/ \E n \in Names, a \in Args : Enqueue(n, a)
  \/ \E c \in PoolChains : ~started["P3"] /\ Middlewares("P3", c)
  \/ Start("P3")
  \/ \E w \in workers("P3") :
       TimerFire(w) \/ fetchJob(w) \/ handlerDone(w, "nil") \/ routeJob(w)

SpecAlias == InitWith(RegistrationsWithMiddlewares, {}) /\ [][NextAlias]_vars

\* ------------------------------------------------------------ vocabulary
Range(q) == {q[i] : i \in DOMAIN q}

RECURSIVE SumOver(_, _)
SumOver(f, S) ==
  IF S = {} THEN 0
  ELSE LET x == CHOOSE y \in S : TRUE IN f[x] + SumOver(f, S \ {x})

\* how many records in a list / a sorted set carry job id i
InList(q, i) == Cardinality({k \in DOMAIN q : q[k].id = i})
InSet(z, i) == Cardinality({e \in z : e.job.id = i})

\* records of name n in all pools' in-progress lists
InProgressCount(n) == SumOver([p \in Pools |-> Len(inprogress[p][n])], Pools)

InPending(i) == SumOver([n \in Names |-> InList(jobs[n], i)], Names)
InProgressOf(p, i) == SumOver([n \in Names |-> InList(inprogress[p][n], i)], Names)
InAnyProgress(i) == SumOver([p \in Pools |-> InProgressOf(p, i)], Pools)

\* the number of places that hold a record of job id i
Places(i) ==
  InPending(i) + InAnyProgress(i) + InSet(retry, i) + InSet(scheduled, i)
    + InSet(dead, i)

JobIDs == 1..MaxJobs

\* no worker is between a fetch and the end of processJob
Quiescent == \A w \in Workers : job[w] = NoJob

\* handler invocations of name n that were started and have not returned
Invocations(n) ==
  Cardinality({w \in Workers : pc[w] = "run" /\ job[w].rawJSON.name = n})
    + abandoned[n]

\* worker w takes the step that ends processJob's select: remove or route
RouteStep(w) == pc[w] = "route" /\ pc'[w] # "route"

Ordinary == {"boom", "Run Job Timeout"}

\* ------------------------------------------------------------------ C1
\* C1: for a name registered with maxConcurrency = K > 0, at most K handler
\* invocations of that name are started and not yet returned, over all
\* workers of all pools, whatever the interleaving of fetches, completions,
\* failures and handler timeouts.
C1_AtMostKInvocations ==
  \A n \in Names :
    jobTypes[n].MaxConcurrency > 0 => Invocations(n) <= jobTypes[n].MaxConcurrency

\* ------------------------------------------------------------------ C2
\* C2: at every quiescent state jobs:<name>:lock equals the number of
\* records in all pools' in-progress lists for the name; and a successful
\* completion leaves the record in no list, with the lock again equal to the
\* number of records in progress (0 when it was the only one).
C2_LockEqualsInProgress ==
  [][/\ Quiescent' => \A n \in Names : lock'[n] = InProgressCount(n)'
     /\ \A w \in Workers, i \in JobIDs, n \in Names :
          /\ RouteStep(w) /\ runErr[w] = "nil"
          /\ job[w].rawJSON.id = i /\ job[w].rawJSON.name = n
          => /\ Places(i)' = 0
             /\ lock'[n] = lock[n] - 1
             /\ lock'[n] = InProgressCount(n)']_vars

\* two jobs were enqueued and both were processed: one died, the other was
\* completed; nothing is in progress and no lock is held
C2_Witness ==
  /\ Quiescent
  /\ nextID > 2
  /\ Cardinality(dead) = 1
  /\ retry = {} /\ scheduled = {}
  /\ \A n \in Names : jobs[n] = <<>> /\ lock[n] = 0 /\ InProgressCount(n) = 0

\* ------------------------------------------------------------------ C3
UniqueKeys == {<<n, a>> : n \in Names, a \in Args}

\* the records in a pending list or in an in-progress list
PendingOrInProgress ==
  UNION {Range(jobs[n]) : n \in Names}
    \cup UNION {Range(inprogress[p][n]) : p \in Pools, n \in Names}

\* C3: at most one record with a given unique key (same name and args) is
\* pending or in progress, across unique enqueues, fetches, failures routed
\* to retry, requeues from retry and completions.
C3_AtMostOnePerUniqueKey ==
  \A k \in UniqueKeys :
    Cardinality({r \in PendingOrInProgress :
                   r.unique /\ <<r.name, r.args>> = k}) <= 1

\* ------------------------------------------------------------------ C4
\* C4: a job record, identified by its id, is in at most one of: a pending
\* list, one pool's in-progress list, retry, scheduled, dead.
C4_RecordInOnePlace == \A i \in JobIDs : Places(i) <= 1

\* one failed job waits in retry while another one is dead
C4_Witness ==
  /\ retry # {} /\ dead # {}
  /\ \A i \in JobIDs : Places(i) = 1

\* ------------------------------------------------------------------ C5
\* C5: on an ordinary handler error the job's fails counter is bumped to f;
\* with M = maxFails, if M - f > 0 the record goes to retry and nowhere else,
\* otherwise to dead and not to retry unless skipDead, and with skipDead it
\* is only removed. So a record in retry has failed fewer than M times and a
\* record in dead has failed exactly M times.
C5_RetryOrDead ==
  [][/\ \A e \in retry' :
          e.job.err \in Ordinary =>
            e.job.fails >= 1 /\ e.job.fails < jobTypes[e.job.name].MaxFails
     /\ \A e \in dead' :
          e.job.err \in Ordinary =>
            /\ e.job.fails = jobTypes[e.job.name].MaxFails
            /\ ~jobTypes[e.job.name].SkipDead
     /\ \A w \in Workers, i \in JobIDs, n \in Names :
          /\ RouteStep(w) /\ runErr[w] \in Ordinary
          /\ job[w].rawJSON.id = i /\ job[w].rawJSON.name = n
          => LET f == job[w].rawJSON.fails + 1
                 M == jobTypes[n].MaxFails
             IN IF M - f > 0
                THEN /\ \E e \in retry' :
                          e.job.id = i /\ e.job.fails = f /\ e.job.err = runErr[w]
                     /\ Places(i)' = 1
                ELSE IF ~jobTypes[n].SkipDead
                THEN /\ \E e \in dead' :
                          e.job.id = i /\ e.job.fails = f /\ e.job.err = runErr[w]
                     /\ Places(i)' = 1
                ELSE Places(i)' = 0]_vars

\* a job of a type with maxFails 2 failed twice: it went through retry once
\* and is dead
C5_Witness ==
  \E e \in dead :
    e.job.err \in Ordinary /\ e.job.fails = 2 /\ jobTypes[e.job.name].MaxFails = 2

\* ------------------------------------------------------------------ C6
\* C6: a job whose handler returned the no-retry error is never placed in
\* retry, whatever maxFails - fails is: it goes to dead when skipDead is
\* false, and is only removed from in-progress, with the lock decrements,
\* when skipDead is true.
C6_NoRetryNeverRetried ==
  [][/\ \A e \in retry' : e.job.err # "noretry"
     /\ \A w \in Workers, i \in JobIDs, n \in Names :
          /\ RouteStep(w) /\ runErr[w] = "noretry"
          /\ job[w].rawJSON.id = i /\ job[w].rawJSON.name = n
          => /\ lock'[n] = lock[n] - 1
             /\ lock_info'[n][poolID(w)] = lock_info[n][poolID(w)] - 1
             /\ IF ~jobTypes[n].SkipDead
                THEN /\ \E e \in dead' : e.job.id = i /\ e.job.err = "noretry"
                     /\ Places(i)' = 1
                ELSE Places(i)' = 0]_vars

\* a job that had fails left is dead after a no-retry error
C6_Witness ==
  \E e \in dead :
    e.job.err = "noretry" /\ e.job.fails < jobTypes[e.job.name].MaxFails

\* ------------------------------------------------------------------ C7
\* the timeout branch of processJob's select is taken by worker w
TimeoutStep(w) ==
  pc[w] = "run" /\ pc'[w] = "route" /\ runErr'[w] = "Run Job Timeout"

\* C7: when a handler does not return within the job type's timeout, the
\* worker goes on with the error "Run Job Timeout": the store is untouched
\* by the timeout itself, the job is then routed by the retry-or-dead rule
\* with that error, and the worker, which never waits for the handler to
\* return, performs its next fetch.
C7_TimeoutReleasesWorker ==
  /\ [][\A w \in Workers, i \in JobIDs, n \in Names :
          /\ TimeoutStep(w) => store' = store /\ job'[w] = job[w]
          /\ /\ RouteStep(w) /\ runErr[w] = "Run Job Timeout"
             /\ job[w].rawJSON.id = i /\ job[w].rawJSON.name = n
             => /\ InAnyProgress(i)' = 0
                /\ lock'[n] = lock[n] - 1
                /\ LET f == job[w].rawJSON.fails + 1
                   IN IF jobTypes[n].MaxFails - f > 0
                      THEN \E e \in retry' \ retry :
                             /\ e.job.id = i /\ e.job.fails = f
                             /\ e.job.err = "Run Job Timeout"
                      ELSE IF ~jobTypes[n].SkipDead
                      THEN \E e \in dead' \ dead :
                             /\ e.job.id = i /\ e.job.fails = f
                             /\ e.job.err = "Run Job Timeout"
                      ELSE Places(i)' = 0]_vars
  /\ \A w \in workers("P3") : (pc[w] = "run") ~> (pc[w] = "fetch")

\* a job timed out and is in retry, its handler has still not returned, and
\* the worker that ran it is fetching again
C7_Witness ==
  \E w \in Workers, e \in retry :
    /\ e.job.err = "Run Job Timeout"
    /\ abandoned[e.job.name] > 0
    /\ pc[w] = "fetch" /\ job[w] = NoJob
    /\ \A v \in Workers : pc[v] # "run"

\* ------------------------------------------------------------------ C8
\* worker w is between a fetch and the end of processJob's routing
Holding(w) == job[w] # NoJob /\ pc[w] \in {"run", "route", "ackclear", "drop", "stray"}

InProgressOfPool(p) == SumOver([n \in Names |-> Len(inprogress[p][n])], Names)

NothingToFetch(w) ==
  \A o \in Orders : FirstFetchable(samplesOf(w, o), 1) = 0

\* C9: a worker that received a drain request signals drain-complete only
\* out of a fetch that returned no job: nothing was fetchable, no job is
\* held and the store is unchanged; a fetch that returned a job is followed
\* by its processing, not by the signal. With the signal the worker leaves
\* drained mode, and Drain returns only when every worker has signalled.
C9_DrainSignalsOnEmptyFetch ==
  [][/\ \A w \in Workers :
          /\ pc[w] # "sigdrain" /\ pc'[w] = "sigdrain" =>
               /\ pc[w] = "fetch" /\ drained[w] /\ drainReq[w] = "wait"
               /\ NothingToFetch(w)
               /\ job'[w] = NoJob /\ store' = store
          /\ pc[w] = "fetch" /\ job'[w] # NoJob =>
               pc'[w] \in {"run", "drop", "stray"}
          /\ drainReq[w] = "wait" /\ drainReq'[w] # "wait" =>
               /\ pc[w] = "sigdrain" /\ drainReq'[w] = "done"
               /\ ~drained'[w] /\ pc'[w] = "select" /\ store' = store
          /\ drained'[w] => drainReq'[w] = "wait"
          /\ ~drained[w] /\ drained'[w] =>
               pc[w] = "select" /\ pc'[w] = "select" /\ drainReq[w] = "send"
     /\ \A p \in Pools :
          poolCall[p] = "drain" /\ poolCall'[p] = "none" =>
            \A w \in workers(p) : ~drained[w] /\ drainReq[w] = "done"]_vars

\* Drain is waiting: one worker has signalled and left drained mode while
\* the other one, drained too, is still running a handler
C9_Witness ==
  \E w, v \in workers("P3") :
    /\ poolCall["P3"] = "drain"
    /\ drainReq[w] = "done" /\ ~drained[w]
    /\ drainReq[v] = "wait" /\ drained[v] /\ pc[v] = "run"

\* ----------------------------------------------------------------- C10
\* worker w goes from its fetch to what follows it
FetchStep(w) == pc[w] = "fetch" /\ pc'[w] # "fetch"

\* name n has a pending job that the script may hand out
Fetchable(n) ==
  /\ ~paused[n]
  /\ jobs[n] # <<>>
  /\ ~(max_concurrency[n] > 0 /\ lock[n] >= max_concurrency[n])

\* C10: a fetch neither removes a job from the pending list of a paused name
\* nor changes that name's in-progress lists, lock or lock_info, and a job
\* it returns is of an unpaused name; a paused name does not keep the
\* unpaused names from being fetched out of the same fetch.
C10_PausedNotFetched ==
  [][\A w \in Workers :
       /\ FetchStep(w) =>
            /\ \A n \in Names :
                 paused[n] =>
                   /\ jobs'[n] = jobs[n]
                   /\ lock'[n] = lock[n]
                   /\ lock_info'[n] = lock_info[n]
                   /\ \A p \in Pools : inprogress'[p][n] = inprogress[p][n]
            /\ job'[w] # NoJob => ~paused[job'[w].rawJSON.name]
       /\ \A o \in Orders :
            LET i == FirstFetchable(samplesOf(w, o), 1)
            IN /\ (\E n \in Names : Fetchable(n)) => i # 0
               /\ i # 0 => Fetchable(o[i])]_vars

\* a worker runs a job of b that it fetched while a, with a job pending,
\* was paused and the pool's other name was not
C10_Witness ==
  \E w \in Workers :
    /\ pc[w] = "run" /\ job[w].rawJSON.name = "b"
    /\ paused["a"] /\ ~paused["b"]
    /\ jobs["a"] # <<>>
    /\ lock["a"] = 0

\* ----------------------------------------------------------------- C11
\* C11: for a name registered with maxConcurrency = K > 0 the records of the
\* name in all pools' in-progress lists never number more than K, whatever
\* the interleaving of the pools' fetches: a fetch hands out a job of the
\* name only when lock < K, incrementing lock with the move, and with
\* lock >= K it leaves the name's pending and in-progress lists alone.
C11_CapAcrossPools ==
  [][/\ \A n \in Names :
          jobTypes[n].MaxConcurrency > 0 =>
            InProgressCount(n)' <= jobTypes[n].MaxConcurrency
     /\ \A w \in Workers, n \in Names :
          FetchStep(w) /\ max_concurrency[n] > 0 =>
            /\ job'[w] # NoJob /\ job'[w].rawJSON.name = n =>
                 lock[n] < max_concurrency[n] /\ lock'[n] = lock[n] + 1
            /\ lock[n] >= max_concurrency[n] =>
                 /\ jobs'[n] = jobs[n]
                 /\ \A p \in Pools : inprogress'[p][n] = inprogress[p][n]]_vars

\* a worker of one pool holds the one job a name with K = 1 allows; a worker
\* of the other pool is in its fetch, the name has a job pending and nothing
\* can be fetched
C11_Witness ==
  \E w, v \in Workers, n \in Names :
    /\ poolID(w) # poolID(v)
    /\ max_concurrency[n] = 1
    /\ pc[w] = "run" /\ job[w].rawJSON.name = n
    /\ InProgressCount(n) = 1
    /\ jobs[n] # <<>>
    /\ pc[v] = "fetch" /\ NothingToFetch(v)

\* ----------------------------------------------------------------- C12
\* the entries of scheduled for the occurrence (n, t)
Occurrences(n, t) == {e \in scheduled : e.job.name = n /\ e.score = t}

\* C12: the scheduled set never holds more than one entry for a periodic
\* occurrence (jobName, firing time), however the enqueuers of several pools
\* interleave and however the windows of successive runs overlap.
C12_PeriodicOnce ==
  \A n \in PeriodicJobs, t \in 0..(MaxNow + Horizon) :
    Cardinality(Occurrences(n, t)) <= 1

\* two pools ran the enqueuer at different times, each has inserted its whole
\* window, the windows share the firing time 1 and its entry is scheduled
C12_Witness ==
  /\ penq["P1"].last = 0 /\ penq["P1"].todo = {}
  /\ penq["P2"].last = 1 /\ penq["P2"].todo = {}
  /\ Occurrences("a", 1) # {}
  /\ Occurrences("a", 3) # {}

AppendedOne(s, t) == \E fn \in Fns : t = Append(s, fn)

\* C14: a call of Middleware appends its function to the pool's middleware
\* chain, so that Middleware(f1) then Middleware(f2) leave [f1, f2] in the
\* pool and in each of its workers; the same for Hook and the hook chain.
C14_MiddlewareAppends ==
  [][\A p \in Pools :
       /\ middleware'[p] # middleware[p] =>
            /\ AppendedOne(middleware[p], middleware'[p])
            /\ \A w \in workers(p) : wmiddleware'[w] = middleware'[p]
       /\ hook'[p] # hook[p] =>
            /\ AppendedOne(hook[p], hook'[p])
            /\ \A w \in workers(p) : whook'[w] = hook'[p]]_vars

\* ----------------------------------------------------------------- C15
\* worker w takes the step of processJob's stray branch
StrayStep(w) == pc[w] = "stray" /\ pc'[w] # "stray"

ClearedRouteStep(w) == RouteStep(w) /\ runErr[w] = "nil" /\ hookRuns[w] = 0

\* worker w acknowledges a clear signal inside processJob
ClearStep(w) == pc[w] = "run" /\ pc'[w] = "ackclear"

\* C16 as claimed: after a clear the record is still in the pool's
\* in-progress list, lock and lock_info[pool] are not decremented for it,
\* and it is in neither retry nor dead.
C16_ClearLeavesInProgress ==
  [][\A w \in Workers, i \in JobIDs, n \in Names :
       /\ ClearedRouteStep(w)
       /\ job[w].rawJSON.id = i /\ job[w].rawJSON.name = n
       => /\ InProgressOf(poolID(w), i)' = 1
          /\ lock'[n] = lock[n]
          /\ lock_info'[n][poolID(w)] = lock_info[n][poolID(w)]
          /\ InSet(retry, i)' = 0 /\ InSet(dead, i)' = 0]_vars

\* C16 amended: the clear is acknowledged with the store untouched and the
\* handler left running, and processJob then treats the job as done: the
\* record is removed from the pool's in-progress list, lock and
\* lock_info[pool] are decremented, and it is in neither retry nor dead nor
\* any other place.
C16_ClearRemovesAsDone ==
  [][\A w \in Workers, i \in JobIDs, n \in Names :
       /\ ClearStep(w) =>
            /\ store' = store /\ job'[w] = job[w] /\ runErr'[w] = "nil"
            /\ abandoned'[job[w].rawJSON.name] = abandoned[job[w].rawJSON.name] + 1
       /\ /\ ClearedRouteStep(w)
          /\ job[w].rawJSON.id = i /\ job[w].rawJSON.name = n
          => /\ Places(i)' = 0
             /\ lock'[n] = lock[n] - 1
             /\ lock_info'[n][poolID(w)] = lock_info[n][poolID(w)] - 1
             /\ retry' = retry /\ dead' = dead]_vars

\* a job was cleared: its handler is still running, no worker holds a job,
\* the job is in no place, nothing failed and the lock is 0
C16_Witness ==
  /\ abandoned["a"] > 0
  /\ clearReq["w3"] = "none"
  /\ \A w \in Workers : job[w] = NoJob
  /\ retry = {} /\ dead = {}
  /\ \E i \in JobIDs : i < nextID /\ Places(i) = 0
  /\ lock["a"] = 0

\* ----------------------------------------------------------------- C17
\* C17: for every job whose handler task was started the hook chain is run
\* exactly once before the job is routed, on the timeout path as well as
\* when the handler returned.
C17_HooksRunOnce ==
  [][\A w \in Workers : RouteStep(w) => hookRuns[w] = 1]_vars

\* ----------------------------------------------------------------- C18
\* worker w leaves processJob's routing with a job that failed, that the
\* retry-or-dead rule sends to retry or to dead, and that cannot be
\* serialized
SerializeErrorStep(w) ==
  /\ RouteStep(w)
  /\ runErr[w] # "nil"
  /\ ~serialize(w)
  /\ routeOf(jobTypes[job[w].rawJSON.name],
             failed(job[w].rawJSON, runErr[w]), runErr[w]) \in {"retry", "dead"}

\* C18 as claimed: when serializing the job fails while it is routed to
\* retry or to dead, after the routing call the record is no longer in the
\* pool's in-progress list, and it is in neither retry nor dead.
C18_SerializeErrorDrops ==
  [][\A w \in Workers, i \in JobIDs, n \in Names :
       (SerializeErrorStep(w) /\ job[w].rawJSON.id = i
          /\ job[w].rawJSON.name = n)
       => /\ InList(inprogress'[poolID(w)][n], i) = 0
          /\ InSet(retry', i) = 0
          /\ InSet(dead', i) = 0]_vars

\* C18 amended: when serializing the job fails while it is routed to retry
\* or to dead, the routing call returns before any store command: the record
\* stays in the pool's in-progress list as it was fetched, lock and
\* lock_info are not decremented, and the record is in neither retry nor
\* dead.
C18_SerializeErrorLeavesEntry ==
  [][\A w \in Workers, i \in JobIDs, n \in Names :
       (SerializeErrorStep(w) /\ job[w].rawJSON.id = i
          /\ job[w].rawJSON.name = n)
       => /\ InList(inprogress'[poolID(w)][n], i) = 1
          /\ inprogress' = inprogress
          /\ lock' = lock /\ lock_info' = lock_info
          /\ InSet(retry', i) = 0
          /\ InSet(dead', i) = 0
          /\ job'[w] = NoJob]_vars

\* worker w1 is back in its loop without a job while the record it failed to
\* serialize is still in its pool's in-progress list and holds the lock
C18_Witness ==
  /\ pc["w1"] = "select" /\ job["w1"] = NoJob
  /\ InProgressOfPool("P1") = 1
  /\ \E n \in Names : lock[n] = 1 /\ lock_info[n]["P1"] = 1
  /\ retry = {} /\ dead = {}

\* ----------------------------------------------------------------- C19
\* C19: a fetch attempt that hands no job to the worker loop (fetchJob
\* returned an error, or nothing was fetchable) has moved nothing: no record
\* left a pending list for an in-progress list and no lock counter was
\* incremented; the worker is back at its timer.
C19_FetchErrorMovesNothing ==
  [][\A w \in Workers :
       (FetchStep(w) /\ job'[w] = NoJob)
       => /\ jobs' = jobs /\ inprogress' = inprogress
          /\ lock' = lock /\ lock_info' = lock_info
          /\ pc'[w] \in {"select", "sigdrain"}]_vars

\* ----------------------------------------------------------------- C20
\* worker w leaves the starting-deadline branch of processJob
DropStep(w) == pc[w] = "drop" /\ pc'[w] # "drop"

\* the three conditions of the starting-deadline drop for payload j
PastStartingDeadline(j) ==
  /\ jobTypes[j.name].StartingDeadline > 0
  /\ j.scheduled_at > 0
  /\ j.scheduled_at < jobTypes[j.name].StartingDeadline

NoJobStep(w) ==
  \/ FetchStep(w) /\ pc'[w] = "select"
  \/ pc[w] = "sigdrain" /\ pc'[w] = "select"

\* processJob returned to the loop of worker w
JobDoneStep(w) ==
  pc[w] \in {"route", "drop", "stray", "defer"} /\ pc'[w] = "select"

\* the ladder of C21 at the k-th consecutive empty fetch
Ladder(k) ==
  CASE k = 1 -> 10 [] k = 2 -> 100 [] k = 3 -> 1000 [] OTHER -> 5000

\* C21: after the k-th consecutive fetch that returned nil (k >= 1) the next
\* fetch is scheduled after ladder[min(k, 4)] ms, ladder = [0, 10, 100,
\* 1000, 5000]; after a fetch that returned a job the counter is 0 and the
\* next fetch is scheduled after 0 ms; after a fetch error the next fetch is
\* scheduled after 10 ms and the counter is unchanged. A tick that finds a
\* fetchable job and yet ends without one ended with an error.
C21_IdleBackoff ==
  [][\A w \in observed :
       /\ NoJobStep(w)
          => \/ /\ consequtiveNoJobs'[w] = consequtiveNoJobs[w] + 1
                /\ timer'[w] = Ladder(consequtiveNoJobs'[w])
                /\ pc[w] = "fetch" => NothingToFetch(w)
             \/ /\ consequtiveNoJobs'[w] = consequtiveNoJobs[w]
                /\ timer'[w] = 10
                /\ pc[w] = "fetch"
       /\ JobDoneStep(w)
          => consequtiveNoJobs'[w] = 0 /\ timer'[w] = 0
       /\ ~NoJobStep(w) /\ ~JobDoneStep(w)
          => /\ consequtiveNoJobs'[w] = consequtiveNoJobs[w]
             /\ timer'[w] # timer[w] => (drained'[w] /\ ~drained[w])]_vars

\* the worker has processed a job and has since fetched nothing five times
\* in a row: the ladder is at its last rung
C21_Witness ==
  /\ "w1" \in observed
  /\ consequtiveNoJobs["w1"] = 5 /\ timer["w1"] = 5000
  /\ nextID > 1 /\ Places(1) = 0

\* ----------------------------------------------------------------- C22
\* C22: the middleware chain run for a job is exactly the pool's chain
\* followed by the chain of the job's own type, whatever the other workers
\* of the pool are processing at the same time.
C22_ChainIsPoolThenType ==
  \A w \in Workers :
    (pc[w] = "route" /\ hookRuns[w] = 1)
    => ranChain[w] =
         wmiddleware[w] \o jobTypes[job[w].rawJSON.name].middleware

\* ----------------------------------------------------------------- C23
\* f to the fourth power
Pow4(f) == f * f * f * f

\* C23: when a job fails with an ordinary error and its incremented fails
\* count f is below maxFails, the record appears in retry with fails = f and
\* a score s: under the default backoff now + f^4 + 15 <= s <= now + f^4 +
\* 15 + 29 * (f + 1), hence s >= now + 15; under a custom backoff function
\* s = now + backoff(job).
C23_RetryDueTime ==
  [][\A w \in Workers, i \in JobIDs, n \in Names :
       (/\ RouteStep(w) /\ runErr[w] \in Ordinary
        /\ job[w].rawJSON.id = i /\ job[w].rawJSON.name = n
        /\ job[w].rawJSON.fails + 1 < jobTypes[n].MaxFails)
       => \E e \in retry' \ retry :
            /\ e.job.id = i /\ e.job.fails = job[w].rawJSON.fails + 1
            /\ IF jobTypes[n].Backoff.nil
               THEN /\ e.score >= now + Pow4(e.job.fails) + 15
                    /\ e.score <= now + Pow4(e.job.fails) + 15
                                    + 29 * (e.job.fails + 1)
                    /\ e.score >= now + 15
               ELSE e.score = now + CustomBackoff]_vars

\* a job of name a, which has no backoff of its own, failed for the second
\* time and waits in retry with the longest default delay, 16 + 15 + 29 * 3
\* seconds from now
C23_Witness ==
  \E e \in retry :
    /\ e.job.name = "a" /\ e.job.fails = 2
    /\ e.score = now + 118

\* ----------------------------------------------------------------- C24
\* worker w's loop waits for the handler task of a WorkerDrain job
RunsWorkerDrain(w) ==
  pc[w] = "run" /\ jobTypes[job[w].rawJSON.name].handler = "workerDrain"

\* C24: every WorkerDrain job is processed to completion: whatever its
\* worker_id argument, the id of the executing worker included, the handler
\* returns and the job leaves processJob's select as a success.
C24_WorkerDrainCompletes ==
  \A w \in workers("P3") :
    RunsWorkerDrain(w) ~> (pc[w] = "route" /\ runErr[w] = "nil")

\* ----------------------------------------------------------------- C25
\* the callers of v.drain() whose request worker v accepted and that wait
\* on v.doneDrainingChan: the goroutine of the pool's Drain and the
\* workerDrain handlers
Waiting(v) ==
  (IF drainReq[v] = "wait" THEN 1 ELSE 0)
    + Cardinality({h \in Workers :
                     drainCall[h] = "wait" /\ v \in drainTargets(h)})

\* C25: every drain request a worker accepted is answered by one
\* drain-complete signal to its caller: while a caller waits, it is the only
\* one, the worker's loop is running and is in drained mode, so that its
\* next empty fetch signals this caller.
C25_EveryDrainAnswered ==
  \A v \in Workers :
    Waiting(v) > 0
    => /\ Waiting(v) = 1
       /\ drained[v]
       /\ pc[v] \notin {"ackstop", "off"}

\* ----------------------------------------------------------------- C26
\* C26: in every reachable state jobs:<name>:lock and every pool's
\* lock_info count are at least 0, also after a reaper has re-enqueued the
\* in-progress record of a pool whose worker then finishes the job.
C26_LocksNeverNegative ==
  \A n \in Names :
    /\ lock[n] >= 0
    /\ \A p \in Pools : lock_info[n][p] >= 0

\* ----------------------------------------------------------------- C27
\* the loop of worker w is running
LoopRunning(w) == pc[w] # "off"

\* C27: Start and Stop are guarded by the started flag. Components are
\* created only by a Start that takes the pool from not started to started,
\* one instance of each; stop requests are sent only by a Stop of a started
\* pool; and after any sequence of Start and Stop calls (no Stop is waiting
\* for its workers), every worker loop and every background component of a
\* pool is running exactly when the pool is started.
C27_StartStopGuarded ==
  [][\A p \in Pools :
       /\ (\E c \in Components : running'[p][c] > running[p][c])
          => /\ ~started[p] /\ started'[p]
             /\ \A c \in Components : running[p][c] = 0 /\ running'[p][c] = 1
       /\ (\E w \in workers(p) : stopReq[w] # "send" /\ stopReq'[w] = "send")
          => started[p] /\ ~started'[p]
       /\ poolCall'[p] # "stop"
          => /\ \A c \in Components :
                  running'[p][c] = IF started'[p] THEN 1 ELSE 0
             /\ \A w \in workers(p) : (pc'[w] # "off") <=> started'[p]
    ]_vars

\* a pool that was started (its concurrency controls are written) and whose
\* Stop has returned: no loop and no component of it is running
C27_Witness ==
  /\ ~started["P3"] /\ poolCall["P3"] = "none"
  /\ max_concurrency # [n \in Names |-> 0]
  /\ \A c \in Components : running["P3"][c] = 0
  /\ \A w \in workers("P3") : ~LoopRunning(w)
====
